---- MODULE Spec2Model ----
(***************************************************************************)
(* Model of the OpenTRV modelled radiator valve controller                 *)
(* (OTRadValve_ModelledRadValve.cpp): ModelledRadValveState::tick() and    *)
(* ModelledRadValveState::computeRequiredTRVPercentOpen().                 *)
(*                                                                         *)
(* Temperatures are ints in C/16.  The valve percentage is a uint8_t, so   *)
(* every value returned by computeRequiredTRVPercentOpen() is reduced      *)
(* modulo 2^8 as the C++ return conversion does.                           *)
(***************************************************************************)
EXTENDS Integers, FiniteSets, Sequences, TLC

VARIABLES
    valvePCOpen,              \* caller's valve position, passed by reference to tick()
    inputState,               \* ModelledRadValveInputState handed to the latest tick()
    prevRawTempC16,           \* filter memory, [0] newest
    initialised,              \* lazy initialisation done
    isFiltering,              \* smoothing applied to the control temperature
    valveMoved,               \* the latest tick() changed the valve position
    cumulativeMovementPC,     \* cumulative valve movement
    valveTurndownCountdownM,  \* non-zero: dontTurnup()
    valveTurnupCountdownM,    \* non-zero: dontTurndown()
    caller,                   \* the caller of tick(): "poll" (control loop), "test", "done"
    wasFiltering,             \* history variable: isFiltering on entry to the latest tick()
    eeprom,                   \* simple schedule bytes in EEPROM, one per schedule
    minutesSinceMidnightLT,   \* real-time clock: minutes since midnight, local time
    scheduleEcoBias,          \* eco (rather than comfort) bias as seen by onTime()
    schedCall                 \* the latest setSimpleSchedule()/clearSimpleSchedule() call:
                              \* its parameters, its result, and whether the schedule
                              \* it names was set on entry

vars == << valvePCOpen, inputState, prevRawTempC16, initialised, isFiltering,
           valveMoved, cumulativeMovementPC, valveTurndownCountdownM,
           valveTurnupCountdownM, caller, wasFiltering,
           eeprom, minutesSinceMidnightLT, scheduleEcoBias, schedCall >>

\* The state of the valve controller and its caller's valve position.
valveVars == << valvePCOpen, inputState, prevRawTempC16, initialised, isFiltering,
                valveMoved, cumulativeMovementPC, valveTurndownCountdownM,
                valveTurnupCountdownM, wasFiltering >>

\* The state of the schedule store, the clock and the bias.
schedVars == << eeprom, minutesSinceMidnightLT, scheduleEcoBias, schedCall >>

----------------------------------------------------------------------------
(* Program constants set in OTRadValve_ModelledRadValve.cpp.               *)

refTempOffsetC16 == 8
TRV_MIN_SLEW_PC == 7
TRV_MAX_SLEW_PC_PER_MIN == 5
MAX_TEMP_JUMP_C16 == 3
MIN_WINDOW_OPEN_TEMP_FALL_C16 == 16
MIN_WINDOW_OPEN_TEMP_FALL_M == 10
ulpStep == 6

(* Program constants declared in headers of the repository.                *)

filterLength == 4
DEFAULT_VALVE_PC_MIN_REALLY_OPEN == 15
DEFAULT_VALVE_PC_MODERATELY_OPEN == 35
DEFAULT_VALVE_PC_SAFER_OPEN == 50
DEFAULT_MAX_RUN_ON_TIME_M == 5
MIN_VALVE_TARGET_C == 5
DEFAULT_ANTISEEK_VALVE_REOPEN_DELAY_M == 2
DEFAULT_ANTISEEK_VALVE_RECLOSE_DELAY_M == 4

----------------------------------------------------------------------------
(* Arithmetic helpers: Arduino min/max/abs/constrain and C conversions.    *)

min(a, b) == IF a < b THEN a ELSE b
max(a, b) == IF a > b THEN a ELSE b
abs(a) == IF a < 0 THEN -a ELSE a
constrain(amt, low, high) == IF amt < low THEN low ELSE IF amt > high THEN high ELSE amt

\* Conversion of an int to uint8_t.
ToUint8(x) == x % 256
\* Conversion of an int to int8_t.
ToInt8(x) == LET m == x % 256 IN IF m >= 128 THEN m - 256 ELSE m
\* C integer division, truncating toward zero (b > 0).
CDiv(a, b) == IF a >= 0 THEN a \div b ELSE -((-a) \div b)

TRV_SLEW_PC_PER_MIN_VFAST == min(34, 4 * TRV_MAX_SLEW_PC_PER_MIN)
TRV_SLEW_PC_PER_MIN_FAST == min(20, 2 * TRV_MAX_SLEW_PC_PER_MIN)

RECURSIVE SumTo(_, _)
SumTo(data, i) == IF i < 0 THEN 0 ELSE data[i] + SumTo(data, i - 1)

\* Rounded-up mean of the N entries of data.
smallIntMean(data) ==
    CDiv(SumTo(data, filterLength - 1) + (filterLength \div 2), filterLength)

getSmoothedRecent(hist) == smallIntMean(hist)

\* Last change in raw temperature; +ve means rising.
getRawDelta(hist) == hist[0] - hist[1]
\* Change in raw temperature from n ticks ago, capped to the filter length.
getRawDeltaN(hist, n) == hist[0] - hist[min(n, filterLength - 1)]

dontTurnup(tdc) == tdc # 0
dontTurndown(tuc) == tuc # 0

----------------------------------------------------------------------------
(* computeRequiredTRVPercentOpen(): a const method; the state it reads     *)
(* (filter memory, isFiltering, the two countdowns) is passed explicitly.  *)
(*   pc    valvePCOpen            in    inputState                         *)
(*   hist  prevRawTempC16         filt  isFiltering                        *)
(*   tdc   valveTurndownCountdownM      tuc   valveTurnupCountdownM        *)

\* Variant: the smoothed temperature is used whether or not filtering is engaged.
adjustedTempC16_alwaysSmoothed(in, hist, filt) ==
    getSmoothedRecent(hist) + refTempOffsetC16

\* Possibly-adjusted and/or smoothed temperature to use for targeting.
adjustedTempC16(in, hist, filt) ==
    IF filt THEN getSmoothedRecent(hist) + refTempOffsetC16 ELSE in.refTempC16

adjustedTempC(in, hist, filt) == ToInt8(adjustedTempC16(in, hist, filt) \div 16)

\* Window/door-open detection (TODO-621): eco bias, above frost threshold,
\* temperature falling now and fallen a lot over the last few minutes.
windowOpenDetected(in, hist, filt) ==
    /\ in.hasEcoBias
    /\ adjustedTempC(in, hist, filt) > MIN_VALVE_TARGET_C
    /\ getRawDelta(hist) < 0
    /\ getRawDeltaN(hist, MIN_WINDOW_OPEN_TEMP_FALL_M) <= -MIN_WINDOW_OPEN_TEMP_FALL_C16

\* Variant: the open-window turn down shuts the valve outright.
windowOpenResponse_shut(pc, tuc) ==
    IF ~dontTurndown(tuc) THEN 0 ELSE pc

\* Response to a detected open window: turn down unless inhibited.
windowOpenResponse(pc, tuc) ==
    IF ~dontTurndown(tuc)
    THEN IF pc >= DEFAULT_VALVE_PC_SAFER_OPEN THEN ToUint8(DEFAULT_VALVE_PC_SAFER_OPEN - 1)
         ELSE IF pc > TRV_MAX_SLEW_PC_PER_MIN THEN ToUint8(pc - TRV_MAX_SLEW_PC_PER_MIN)
         ELSE 0
    ELSE pc

\* Variant: glacial opening never moves the valve.
slewOpen_glacialHolds(pc, in, hist, filt, tdc) ==
    IF dontTurnup(tdc) THEN pc
    ELSE
    LET vBelowTarget == adjustedTempC(in, hist, filt) < in.targetTempC - 1
        beGlacial ==
            \/ in.glacial
            \/ /\ pc >= in.minPCOpen
               /\ in.widenDeadband
               /\ ~in.fastResponseRequired
               /\ \/ (in.hasEcoBias /\ ~vBelowTarget)
                  \/ (filt /\ getRawDelta(hist) > 0)
        cappedModeratelyOpen ==
            ToUint8(min(in.maxPCOpen,
                        min(99, DEFAULT_VALVE_PC_MODERATELY_OPEN + TRV_SLEW_PC_PER_MIN_FAST)))
        slewRate ==
            IF (pc > DEFAULT_VALVE_PC_MODERATELY_OPEN) \/ ~in.widenDeadband
            THEN TRV_MAX_SLEW_PC_PER_MIN ELSE TRV_SLEW_PC_PER_MIN_VFAST
        minOpenFromCold == ToUint8(max(slewRate, in.minPCOpen))
    IN  IF beGlacial THEN pc
        ELSE IF /\ pc < cappedModeratelyOpen
                /\ (in.fastResponseRequired \/ (vBelowTarget /\ ~in.widenDeadband))
        THEN cappedModeratelyOpen
        ELSE IF pc < minOpenFromCold THEN minOpenFromCold
        ELSE ToUint8(min(ToUint8(pc + slewRate), in.maxPCOpen))

\* Variant: the explicit glacial flag is not consulted when opening under target.
slewOpen_ignoringGlacialFlag(pc, in, hist, filt, tdc) ==
    IF dontTurnup(tdc) THEN pc
    ELSE
    LET vBelowTarget == adjustedTempC(in, hist, filt) < in.targetTempC - 1
        beGlacial ==
            /\ pc >= in.minPCOpen
            /\ in.widenDeadband
            /\ ~in.fastResponseRequired
            /\ \/ (in.hasEcoBias /\ ~vBelowTarget)
               \/ (filt /\ getRawDelta(hist) > 0)
        cappedModeratelyOpen ==
            ToUint8(min(in.maxPCOpen,
                        min(99, DEFAULT_VALVE_PC_MODERATELY_OPEN + TRV_SLEW_PC_PER_MIN_FAST)))
        slewRate ==
            IF (pc > DEFAULT_VALVE_PC_MODERATELY_OPEN) \/ ~in.widenDeadband
            THEN TRV_MAX_SLEW_PC_PER_MIN ELSE TRV_SLEW_PC_PER_MIN_VFAST
        minOpenFromCold == ToUint8(max(slewRate, in.minPCOpen))
    IN  IF beGlacial THEN ToUint8(pc + 1)
        ELSE IF /\ pc < cappedModeratelyOpen
                /\ (in.fastResponseRequired \/ (vBelowTarget /\ ~in.widenDeadband))
        THEN cappedModeratelyOpen
        ELSE IF pc < minOpenFromCold THEN minOpenFromCold
        ELSE ToUint8(min(ToUint8(pc + slewRate), in.maxPCOpen))

\* Variant: no jump straight to just over 'moderately open'.
slewOpen_noModerateJump(pc, in, hist, filt, tdc) ==
    IF dontTurnup(tdc) THEN pc
    ELSE
    LET vBelowTarget == adjustedTempC(in, hist, filt) < in.targetTempC - 1
        beGlacial ==
            \/ in.glacial
            \/ /\ pc >= in.minPCOpen
               /\ in.widenDeadband
               /\ ~in.fastResponseRequired
               /\ \/ (in.hasEcoBias /\ ~vBelowTarget)
                  \/ (filt /\ getRawDelta(hist) > 0)
        slewRate ==
            IF (pc > DEFAULT_VALVE_PC_MODERATELY_OPEN) \/ ~in.widenDeadband
            THEN TRV_MAX_SLEW_PC_PER_MIN ELSE TRV_SLEW_PC_PER_MIN_VFAST
        minOpenFromCold == ToUint8(max(slewRate, in.minPCOpen))
    IN  IF beGlacial THEN ToUint8(pc + 1)
        ELSE IF pc < minOpenFromCold THEN minOpenFromCold
        ELSE ToUint8(min(ToUint8(pc + slewRate), in.maxPCOpen))

\* Variant: open-from-cold takes precedence over the jump to just over 'moderately open'.
slewOpen_openFromColdFirst(pc, in, hist, filt, tdc) ==
    IF dontTurnup(tdc) THEN pc
    ELSE
    LET vBelowTarget == adjustedTempC(in, hist, filt) < in.targetTempC - 1
        beGlacial ==
            \/ in.glacial
            \/ /\ pc >= in.minPCOpen
               /\ in.widenDeadband
               /\ ~in.fastResponseRequired
               /\ \/ (in.hasEcoBias /\ ~vBelowTarget)
                  \/ (filt /\ getRawDelta(hist) > 0)
        cappedModeratelyOpen ==
            ToUint8(min(in.maxPCOpen,
                        min(99, DEFAULT_VALVE_PC_MODERATELY_OPEN + TRV_SLEW_PC_PER_MIN_FAST)))
        slewRate ==
            IF (pc > DEFAULT_VALVE_PC_MODERATELY_OPEN) \/ ~in.widenDeadband
            THEN TRV_MAX_SLEW_PC_PER_MIN ELSE TRV_SLEW_PC_PER_MIN_VFAST
        minOpenFromCold == ToUint8(max(slewRate, in.minPCOpen))
    IN  IF beGlacial THEN ToUint8(pc + 1)
        ELSE IF pc < minOpenFromCold THEN minOpenFromCold
        ELSE IF /\ pc < cappedModeratelyOpen
                /\ (in.fastResponseRequired \/ (vBelowTarget /\ ~in.widenDeadband))
        THEN cappedModeratelyOpen
        ELSE ToUint8(min(ToUint8(pc + slewRate), in.maxPCOpen))

\* Opening slew when under target and valvePCOpen < maxPCOpen.
slewOpen(pc, in, hist, filt, tdc) ==
    IF dontTurnup(tdc) THEN pc
    ELSE
    LET vBelowTarget == adjustedTempC(in, hist, filt) < in.targetTempC - 1
        beGlacial ==
            \/ in.glacial
            \/ /\ pc >= in.minPCOpen
               /\ in.widenDeadband
               /\ ~in.fastResponseRequired
               /\ \/ (in.hasEcoBias /\ ~vBelowTarget)
                  \/ (filt /\ getRawDelta(hist) > 0)
        cappedModeratelyOpen ==
            ToUint8(min(in.maxPCOpen,
                        min(99, DEFAULT_VALVE_PC_MODERATELY_OPEN + TRV_SLEW_PC_PER_MIN_FAST)))
        slewRate ==
            IF (pc > DEFAULT_VALVE_PC_MODERATELY_OPEN) \/ ~in.widenDeadband
            THEN TRV_MAX_SLEW_PC_PER_MIN ELSE TRV_SLEW_PC_PER_MIN_VFAST
        minOpenFromCold == ToUint8(max(slewRate, in.minPCOpen))
    IN  IF beGlacial THEN ToUint8(pc + 1)
        ELSE IF /\ pc < cappedModeratelyOpen
                /\ (in.fastResponseRequired \/ (vBelowTarget /\ ~in.widenDeadband))
        THEN cappedModeratelyOpen
        ELSE IF pc < minOpenFromCold THEN minOpenFromCold
        ELSE ToUint8(min(ToUint8(pc + slewRate), in.maxPCOpen))

\* Under temp target, not in BAKE mode.
underTargetNoBake(pc, in, hist, filt, tdc, tuc) ==
    IF windowOpenDetected(in, hist, filt) THEN windowOpenResponse(pc, tuc)
    ELSE IF pc < in.maxPCOpen THEN slewOpen(pc, in, hist, filt, tdc)
    ELSE in.maxPCOpen

\* Variant: bake mode opens the valve only when turn-up is not inhibited.
underTarget_bakeHonoursCooldown(pc, in, hist, filt, tdc, tuc) ==
    IF in.inBakeMode /\ ~dontTurnup(tdc) THEN in.maxPCOpen
    ELSE underTargetNoBake(pc, in, hist, filt, tdc, tuc)

\* (Well) under temp target: open valve up.
underTarget(pc, in, hist, filt, tdc, tuc) ==
    IF in.inBakeMode THEN in.maxPCOpen
    ELSE underTargetNoBake(pc, in, hist, filt, tdc, tuc)

\* Variant: just over target with a wide deadband the percent is held whether or not
\* the temperature is falling.
slewClosed_holdWheneverJustOver(pc, in, hist, filt) ==
    LET justOverTemp == adjustedTempC(in, hist, filt) = in.targetTempC + 1
        minReallyOpen == in.minPCOpen
        lingerThreshold == IF minReallyOpen > 0 THEN ToUint8(minReallyOpen - 1) ELSE 0
    IN  IF justOverTemp /\ in.widenDeadband THEN pc
        ELSE IF justOverTemp /\ filt THEN ToUint8(pc - 1)
        ELSE IF pc < minReallyOpen
        THEN IF /\ DEFAULT_MAX_RUN_ON_TIME_M < minReallyOpen
                /\ pc < minReallyOpen - DEFAULT_MAX_RUN_ON_TIME_M
             THEN 0
             ELSE ToUint8(pc - 1)
        ELSE IF /\ (~in.hasEcoBias) \/ justOverTemp \/ filt
                /\ ~in.fastResponseRequired
                /\ pc > constrain(lingerThreshold + TRV_SLEW_PC_PER_MIN_FAST,
                                  TRV_SLEW_PC_PER_MIN_FAST, in.maxPCOpen)
        THEN ToUint8(pc - TRV_SLEW_PC_PER_MIN_FAST)
        ELSE lingerThreshold

\* Variant: no hold when just over target with a wide deadband and a falling temperature.
slewClosed_noHoldWhileCooling(pc, in, hist, filt) ==
    LET justOverTemp == adjustedTempC(in, hist, filt) = in.targetTempC + 1
        minReallyOpen == in.minPCOpen
        lingerThreshold == IF minReallyOpen > 0 THEN ToUint8(minReallyOpen - 1) ELSE 0
    IN  IF justOverTemp /\ filt THEN ToUint8(pc - 1)
        ELSE IF pc < minReallyOpen
        THEN IF /\ DEFAULT_MAX_RUN_ON_TIME_M < minReallyOpen
                /\ pc < minReallyOpen - DEFAULT_MAX_RUN_ON_TIME_M
             THEN 0
             ELSE ToUint8(pc - 1)
        ELSE IF /\ (~in.hasEcoBias) \/ justOverTemp \/ filt
                /\ ~in.fastResponseRequired
                /\ pc > constrain(lingerThreshold + TRV_SLEW_PC_PER_MIN_FAST,
                                  TRV_SLEW_PC_PER_MIN_FAST, in.maxPCOpen)
        THEN ToUint8(pc - TRV_SLEW_PC_PER_MIN_FAST)
        ELSE lingerThreshold

\* Variant: below minPCOpen the valve is only ever closed one step at a time.
slewClosed_noFinalBurst(pc, in, hist, filt) ==
    LET justOverTemp == adjustedTempC(in, hist, filt) = in.targetTempC + 1
        minReallyOpen == in.minPCOpen
        lingerThreshold == IF minReallyOpen > 0 THEN ToUint8(minReallyOpen - 1) ELSE 0
    IN  IF justOverTemp /\ in.widenDeadband /\ getRawDelta(hist) < 0 THEN pc
        ELSE IF justOverTemp /\ filt THEN ToUint8(pc - 1)
        ELSE IF pc < minReallyOpen THEN ToUint8(pc - 1)
        ELSE IF /\ (~in.hasEcoBias) \/ justOverTemp \/ filt
                /\ ~in.fastResponseRequired
                /\ pc > constrain(lingerThreshold + TRV_SLEW_PC_PER_MIN_FAST,
                                  TRV_SLEW_PC_PER_MIN_FAST, in.maxPCOpen)
        THEN ToUint8(pc - TRV_SLEW_PC_PER_MIN_FAST)
        ELSE lingerThreshold

\* Closing when over target, valve not shut and turn-down not inhibited.
slewClosed(pc, in, hist, filt) ==
    LET justOverTemp == adjustedTempC(in, hist, filt) = in.targetTempC + 1
        minReallyOpen == in.minPCOpen
        lingerThreshold == IF minReallyOpen > 0 THEN ToUint8(minReallyOpen - 1) ELSE 0
    IN  IF justOverTemp /\ in.widenDeadband /\ getRawDelta(hist) < 0 THEN pc
        ELSE IF justOverTemp /\ filt THEN ToUint8(pc - 1)
        ELSE IF pc < minReallyOpen
        THEN IF /\ DEFAULT_MAX_RUN_ON_TIME_M < minReallyOpen
                /\ pc < minReallyOpen - DEFAULT_MAX_RUN_ON_TIME_M
             THEN 0
             ELSE ToUint8(pc - 1)
        ELSE IF /\ (~in.hasEcoBias) \/ justOverTemp \/ filt
                /\ ~in.fastResponseRequired
                /\ pc > constrain(lingerThreshold + TRV_SLEW_PC_PER_MIN_FAST,
                                  TRV_SLEW_PC_PER_MIN_FAST, in.maxPCOpen)
        THEN ToUint8(pc - TRV_SLEW_PC_PER_MIN_FAST)
        ELSE lingerThreshold

\* Variant: bake mode opens the valve to maxPCOpen over target, as it does under target.
overTarget_bakeForcesOpen(pc, in, hist, filt, tuc) ==
    IF in.inBakeMode THEN in.maxPCOpen
    ELSE IF 0 # pc
    THEN IF dontTurndown(tuc) THEN pc ELSE slewClosed(pc, in, hist, filt)
    ELSE 0

\* Variant: closing over target ignores the turn-down inhibit.
overTarget_ignoringCooldown(pc, in, hist, filt, tuc) ==
    IF 0 # pc THEN slewClosed(pc, in, hist, filt) ELSE 0

\* (Well) over temp target: close valve down.
overTarget(pc, in, hist, filt, tuc) ==
    IF 0 # pc
    THEN IF dontTurndown(tuc) THEN pc ELSE slewClosed(pc, in, hist, filt)
    ELSE 0

\* LSbits of temperature above base of proportional adjustment range.
lsbitsOf(aC16) == ToUint8(aC16 % 16)

\* Variant: the proportional target grows with the sub-degree bits.
targetPOFor_growingWithBits(in, aC16) ==
    LET tmp == ToUint8(1 + lsbitsOf(aC16))
        targetPORaw == ToUint8(tmp * ulpStep)
    IN  ToUint8(constrain(targetPORaw, in.minPCOpen, in.maxPCOpen))

\* Variant: the proportional target is not constrained to [minPCOpen, maxPCOpen].
targetPOFor_unconstrained(in, aC16) ==
    ToUint8(ToUint8(16 - lsbitsOf(aC16)) * ulpStep)

\* Proportional target from the sub-degree bits, constrained to [minPCOpen, maxPCOpen].
targetPOFor(in, aC16) ==
    LET tmp == ToUint8(16 - lsbitsOf(aC16))
        targetPORaw == ToUint8(tmp * ulpStep)
    IN  ToUint8(constrain(targetPORaw, in.minPCOpen, in.maxPCOpen))

\* The minimum/epsilon slew adjustment allowed (the deadband).
minAbsSlewFor(in) ==
    LET realMinUlp == 1 + ulpStep
        minAbsSlew0 ==
            IF in.widenDeadband
            THEN max(min(DEFAULT_VALVE_PC_MODERATELY_OPEN \div 2,
                         max(TRV_MAX_SLEW_PC_PER_MIN, 2 * TRV_MIN_SLEW_PC)),
                     2 + TRV_MIN_SLEW_PC)
            ELSE TRV_MIN_SLEW_PC
    IN  max(realMinUlp, ToUint8(minAbsSlew0))

\* Variant: opening at target with one sub-degree threshold, whatever widenDeadband.
tooClosedResponse_oneThreshold(pc, in, hist, tdc, targetPO, lsbits) ==
    LET slew == ToUint8(targetPO - pc)
        beGlacial ==
            \/ in.glacial
            \/ in.widenDeadband
            \/ lsbits >= 8
            \/ (lsbits >= 4 /\ pc > DEFAULT_VALVE_PC_MODERATELY_OPEN)
        maxSlew == IF ~in.hasEcoBias THEN TRV_SLEW_PC_PER_MIN_FAST ELSE TRV_MAX_SLEW_PC_PER_MIN
    IN  IF in.inBakeMode THEN in.maxPCOpen
        ELSE IF slew < minAbsSlewFor(in) THEN pc
        ELSE IF dontTurnup(tdc) THEN pc
        ELSE IF getRawDelta(hist) > 0 THEN pc
        ELSE IF lsbits >= 12 THEN pc
        ELSE IF beGlacial THEN ToUint8(pc + 1)
        ELSE IF slew > maxSlew THEN ToUint8(pc + maxSlew)
        ELSE targetPO

\* Variant: closing at target always by the fast slew rate, never straight to targetPO.
tooOpenResponse_alwaysFastSlew(pc, in, hist, filt, tuc, targetPO, lsbits) ==
    LET slew == ToUint8(pc - targetPO)
        beGlacial ==
            \/ in.glacial
            \/ ((in.widenDeadband \/ filt) /\ pc <= DEFAULT_VALVE_PC_MODERATELY_OPEN)
            \/ lsbits < 8
    IN  IF slew < minAbsSlewFor(in) THEN pc
        ELSE IF dontTurndown(tuc) THEN pc
        ELSE IF getRawDelta(hist) <= 0 THEN pc
        ELSE IF beGlacial THEN ToUint8(pc - 1)
        ELSE ToUint8(pc - TRV_SLEW_PC_PER_MIN_FAST)

\* At target, currently open more than required.
tooOpenResponse(pc, in, hist, filt, tuc, targetPO, lsbits) ==
    LET slew == ToUint8(pc - targetPO)
        beGlacial ==
            \/ in.glacial
            \/ ((in.widenDeadband \/ filt) /\ pc <= DEFAULT_VALVE_PC_MODERATELY_OPEN)
            \/ lsbits < 8
    IN  IF slew < minAbsSlewFor(in) THEN pc
        ELSE IF dontTurndown(tuc) THEN pc
        ELSE IF getRawDelta(hist) <= 0 THEN pc
        ELSE IF beGlacial THEN ToUint8(pc - 1)
        ELSE IF slew > TRV_SLEW_PC_PER_MIN_FAST THEN ToUint8(pc - TRV_SLEW_PC_PER_MIN_FAST)
        ELSE targetPO

\* Variant: opening at target without the deadband.
tooClosedResponse_noDeadband(pc, in, hist, tdc, targetPO, lsbits) ==
    LET slew == ToUint8(targetPO - pc)
        beGlacial ==
            \/ in.glacial
            \/ in.widenDeadband
            \/ lsbits >= 8
            \/ (lsbits >= 4 /\ pc > DEFAULT_VALVE_PC_MODERATELY_OPEN)
        maxSlew == IF ~in.hasEcoBias THEN TRV_SLEW_PC_PER_MIN_FAST ELSE TRV_MAX_SLEW_PC_PER_MIN
    IN  IF in.inBakeMode THEN in.maxPCOpen
        ELSE IF dontTurnup(tdc) THEN pc
        ELSE IF getRawDelta(hist) > 0 THEN pc
        ELSE IF lsbits >= (IF in.widenDeadband THEN 8 ELSE 12) THEN pc
        ELSE IF beGlacial THEN ToUint8(pc + 1)
        ELSE IF slew > maxSlew THEN ToUint8(pc + maxSlew)
        ELSE targetPO

\* At target, currently open less than required.
tooClosedResponse(pc, in, hist, tdc, targetPO, lsbits) ==
    LET slew == ToUint8(targetPO - pc)
        rise == getRawDelta(hist)
        beGlacial ==
            \/ in.glacial
            \/ in.widenDeadband
            \/ lsbits >= 8
            \/ (lsbits >= 4 /\ pc > DEFAULT_VALVE_PC_MODERATELY_OPEN)
        maxSlew == IF ~in.hasEcoBias THEN TRV_SLEW_PC_PER_MIN_FAST ELSE TRV_MAX_SLEW_PC_PER_MIN
    IN  IF in.inBakeMode THEN in.maxPCOpen
        ELSE IF slew < minAbsSlewFor(in) THEN pc
        ELSE IF dontTurnup(tdc) THEN pc
        ELSE IF rise > 0 THEN pc
        ELSE IF lsbits >= (IF in.widenDeadband THEN 8 ELSE 12) THEN pc
        ELSE IF beGlacial THEN ToUint8(pc + 1)
        ELSE IF slew > maxSlew THEN ToUint8(pc + maxSlew)
        ELSE targetPO

\* Close to (or at) temp target: set valve partly open to try to tightly regulate.
atTarget(pc, in, hist, filt, tdc, tuc) ==
    LET aC16 == adjustedTempC16(in, hist, filt)
        lsbits == lsbitsOf(aC16)
        targetPO == targetPOFor(in, aC16)
    IN  IF targetPO # pc
        THEN IF targetPO < pc
             THEN tooOpenResponse(pc, in, hist, filt, tuc, targetPO, lsbits)
             ELSE tooClosedResponse(pc, in, hist, tdc, targetPO, lsbits)
        ELSE pc

computeRequiredTRVPercentOpen(pc, in, hist, filt, tdc, tuc) ==
    LET aC == adjustedTempC(in, hist, filt)
    IN  IF aC < in.targetTempC THEN underTarget(pc, in, hist, filt, tdc, tuc)
        ELSE IF aC > in.targetTempC THEN overTarget(pc, in, hist, filt, tuc)
        ELSE atTarget(pc, in, hist, filt, tdc, tuc)

----------------------------------------------------------------------------
(* ModelledRadValveState::tick().                                          *)

Slots == 0 .. (filterLength - 1)

\* Lazy initialisation: fill the filter memory with the current room temperature.
fillFilter(hist, init, rawTempC16) ==
    IF ~init THEN [i \in Slots |-> rawTempC16] ELSE hist

\* Variant: the latest temperature overwrites the newest entry, nothing is shifted.
shiftIn_overwriteNewest(hist, rawTempC16) ==
    [i \in Slots |-> IF i = 0 THEN rawTempC16 ELSE hist[i]]

\* Shift in the latest (raw) temperature.
shiftIn(hist, rawTempC16) ==
    [i \in Slots |-> IF i = 0 THEN rawTempC16 ELSE hist[i - 1]]

\* Variant: only the newest pair of readings is compared.
anyJump_newestOnly(hist) ==
    abs(hist[1] - hist[0]) > MAX_TEMP_JUMP_C16

\* True if any adjacent past readings are wildly different.
anyJump(hist) ==
    \E i \in 1 .. (filterLength - 1) : abs(hist[i] - hist[i - 1]) > MAX_TEMP_JUMP_C16

\* Variant: a filter that is engaged never disengages.
updateFiltering_neverExits(filt, hist, rawTempC16) ==
    IF filt THEN TRUE ELSE anyJump(hist)

\* Variant: a filter that was engaged on entry is not re-engaged by the scan.
updateFiltering_noRescan(filt, hist, rawTempC16) ==
    IF filt
    THEN abs(getSmoothedRecent(hist) - rawTempC16) > MAX_TEMP_JUMP_C16
    ELSE anyJump(hist)

\* Disable/enable filtering, given the updated filter memory.
updateFiltering(filt, hist, rawTempC16) ==
    LET afterExit ==
            IF filt /\ abs(getSmoothedRecent(hist) - rawTempC16) <= MAX_TEMP_JUMP_C16
            THEN FALSE ELSE filt
    IN  IF ~afterExit THEN anyJump(hist) ELSE afterExit

\* Variant: the timer is not decremented.
countDown_stuck(c) == c

\* Tick a count down timer.
countDown(c) == IF c > 0 THEN c - 1 ELSE c

\* Arm the turn-down inhibit after the valve has been opened: valveTurnup().
valveTurnup == DEFAULT_ANTISEEK_VALVE_RECLOSE_DELAY_M

\* Arm the turn-up inhibit after the valve has been closed: valveTurndown().
valveTurndown == DEFAULT_ANTISEEK_VALVE_REOPEN_DELAY_M

\* Variant: any difference from a non-zero position counts as a change.
valveChanged_fromOpenOnly(newValvePC, pc) == (newValvePC # pc) /\ (pc # 0)

\* const bool changed = (newValvePC != valvePCOpenRef).
valveChanged(newValvePC, pc) == newValvePC # pc

\* Variant: the turn-up inhibit is armed by an opening move.
newTurndownCountdown_onOpening(newValvePC, pc, tdc) ==
    IF valveChanged(newValvePC, pc) /\ newValvePC > pc THEN valveTurndown ELSE tdc

\* valveTurndownCountdownM after the commit: armed if the valve was closed.
newTurndownCountdown(newValvePC, pc, tdc) ==
    IF valveChanged(newValvePC, pc) /\ ~(newValvePC > pc) THEN valveTurndown ELSE tdc

\* Variant: the turn-down inhibit is armed whenever the valve is not closed further.
newTurnupCountdown_unlessClosing(newValvePC, pc, tuc) ==
    IF newValvePC >= pc THEN valveTurnup ELSE tuc

\* valveTurnupCountdownM after the commit: armed if the valve was opened.
newTurnupCountdown(newValvePC, pc, tuc) ==
    IF valveChanged(newValvePC, pc) /\ newValvePC > pc THEN valveTurnup ELSE tuc

\* Variant: the signed difference is added whichever way the valve moved.
movementPC_signed(newValvePC, pc) == newValvePC - pc

\* The amount added to cumulativeMovementPC by the commit.
movementPC(newValvePC, pc) ==
    IF valveChanged(newValvePC, pc)
    THEN IF newValvePC > pc THEN newValvePC - pc ELSE pc - newValvePC
    ELSE 0

\* Bound on the cumulative movement explored.
MaxCumulativeMovementPC == 15

\* tick(valvePCOpenRef, in): in is the caller's input state for this tick.
tick(in) ==
    LET rawTempC16 == in.refTempC16 - refTempOffsetC16
        hist == shiftIn(fillFilter(prevRawTempC16, initialised, rawTempC16), rawTempC16)
        filt == updateFiltering(isFiltering, hist, rawTempC16)
        tdc == countDown(valveTurndownCountdownM)
        tuc == countDown(valveTurnupCountdownM)
        newValvePC == computeRequiredTRVPercentOpen(valvePCOpen, in, hist, filt, tdc, tuc)
    IN  /\ inputState' = in
        /\ initialised' = TRUE
        /\ prevRawTempC16' = hist
        /\ isFiltering' = filt
        /\ valveTurndownCountdownM' = newTurndownCountdown(newValvePC, valvePCOpen, tdc)
        /\ valveTurnupCountdownM' = newTurnupCountdown(newValvePC, valvePCOpen, tuc)
        /\ cumulativeMovementPC' = cumulativeMovementPC + movementPC(newValvePC, valvePCOpen)
        /\ valvePCOpen' = newValvePC
        /\ valveMoved' = valveChanged(newValvePC, valvePCOpen)
        /\ wasFiltering' = isFiltering

----------------------------------------------------------------------------
(* Simple valve schedule (OTV0P2BASE_SimpleValveSchedule.cpp): one EEPROM  *)
(* byte per schedule holds the requested start time in units of            *)
(* SIMPLE_SCHEDULE_GRANULARITY_MINS; an unprogrammed byte means not set.   *)

MINS_PER_DAY == 1440
MAX_SIMPLE_SCHEDULES == 2
SIMPLE_SCHEDULE_GRANULARITY_MINS == 6
PREWARM_MINS == 30
PREPREWARM_MINS == 45
LEARNED_ON_PERIOD_M == 60
LEARNED_ON_PERIOD_COMFORT_M == 120

\* Conversion to uint_least16_t.
ToUint16(x) == x % 65536

\* Maximum mins-after-midnight compacted value in one byte.
MAX_COMPRESSED_MINS_AFTER_MIDNIGHT ==
    ToUint8((MINS_PER_DAY \div SIMPLE_SCHEDULE_GRANULARITY_MINS) - 1)

\* (uint_least16_t)~0: the invalid time.
invalidTime == ToUint16(-1)

\* Unprogrammed EEPROM byte.
unprogrammedByte == 255

\* Schedule numbers with a byte of their own.
ScheduleSlots == 0 .. (MAX_SIMPLE_SCHEDULES - 1)

eeprom_read_byte(ee, which) == ee[which]

eeprom_smart_update_byte(ee, which, value) == [ee EXCEPT ![which] = value]

eeprom_smart_erase_byte(ee, which) == [ee EXCEPT ![which] = unprogrammedByte]

\* The wind-back without the wrap-around at midnight.
windBack_noWrap(startTime) == ToUint16(startTime - PREWARM_MINS)

\* The pre-warm wind-back of a stored start time, allowing for wrap-around at midnight.
windBack(startTime) ==
    IF PREWARM_MINS > startTime
    THEN ToUint16(ToUint16(startTime + MINS_PER_DAY) - PREWARM_MINS)
    ELSE ToUint16(startTime - PREWARM_MINS)

getSimpleScheduleOn(ee, which) ==
    IF which >= MAX_SIMPLE_SCHEDULES THEN invalidTime
    ELSE LET startMM == eeprom_read_byte(ee, which)
         IN  IF startMM > MAX_COMPRESSED_MINS_AFTER_MIDNIGHT THEN invalidTime
             ELSE windBack(ToUint16(SIMPLE_SCHEDULE_GRANULARITY_MINS * startMM))

\* The end of an on period without the wrap-around at midnight.
endOfOnPeriod_noWrap(startMins, onT) == ToUint16(startMins + PREWARM_MINS + onT)

\* The end of an on period that starts at startMins, allowing for wrap-around at midnight.
endOfOnPeriod(startMins, onT) ==
    LET endTime == ToUint16(startMins + PREWARM_MINS + onT)
    IN  IF endTime >= MINS_PER_DAY THEN ToUint16(endTime - MINS_PER_DAY) ELSE endTime

getSimpleScheduleOff(ee, which, onT) ==
    LET startMins == getSimpleScheduleOn(ee, which)
    IN  IF startMins = invalidTime THEN invalidTime
        ELSE endOfOnPeriod(startMins, onT)

\* setSimpleSchedule() without the check of the start time.
setSimpleScheduleAccepts_anyTime(startMinutesSinceMidnightLT, which) ==
    ~(which >= MAX_SIMPLE_SCHEDULES)

\* The return value of setSimpleSchedule().
setSimpleScheduleAccepts(startMinutesSinceMidnightLT, which) ==
    /\ ~(which >= MAX_SIMPLE_SCHEDULES)
    /\ ~(startMinutesSinceMidnightLT >= MINS_PER_DAY)

\* The byte setSimpleSchedule() stores: the start time rounded down.
compressedStart(startMinutesSinceMidnightLT) ==
    ToUint8(startMinutesSinceMidnightLT \div SIMPLE_SCHEDULE_GRANULARITY_MINS)

\* setSimpleSchedule() storing into the first schedule whatever schedule is named.
setSimpleSchedule_firstSlot(ee, startMinutesSinceMidnightLT, which) ==
    IF setSimpleScheduleAccepts(startMinutesSinceMidnightLT, which)
    THEN eeprom_smart_update_byte(ee, 0, compressedStart(startMinutesSinceMidnightLT))
    ELSE ee

\* The EEPROM after setSimpleSchedule().
setSimpleSchedule(ee, startMinutesSinceMidnightLT, which) ==
    IF setSimpleScheduleAccepts(startMinutesSinceMidnightLT, which)
    THEN eeprom_smart_update_byte(ee, which, compressedStart(startMinutesSinceMidnightLT))
    ELSE ee

\* clearSimpleSchedule() erasing the first schedule whatever schedule is named.
clearSimpleSchedule_firstOnly(ee, which) ==
    IF which >= MAX_SIMPLE_SCHEDULES THEN ee
    ELSE eeprom_smart_erase_byte(ee, 0)

\* The EEPROM after clearSimpleSchedule().
clearSimpleSchedule(ee, which) ==
    IF which >= MAX_SIMPLE_SCHEDULES THEN ee
    ELSE eeprom_smart_erase_byte(ee, which)

\* isAnySimpleScheduleSet() looking at the first schedule only.
isAnySimpleScheduleSet_firstOnly(ee) ==
    eeprom_read_byte(ee, 0) <= MAX_COMPRESSED_MINS_AFTER_MIDNIGHT

isAnySimpleScheduleSet(ee) ==
    \E which \in ScheduleSlots :
        eeprom_read_byte(ee, which) <= MAX_COMPRESSED_MINS_AFTER_MIDNIGHT

\* One pass of the loop of isAnyScheduleOnWARMNow()/isAnyScheduleOnWARMSoon():
\* TRUE when the pass returns true for schedule which at time mm.
scheduleOnAt(ee, which, mm, onT) ==
    LET s == getSimpleScheduleOn(ee, which)
        e0 == getSimpleScheduleOff(ee, which, onT)
        e == IF e0 < s THEN ToUint16(e0 + MINS_PER_DAY) ELSE e0
    IN  /\ ~(mm < s)
        /\ mm < e

isAnyScheduleOnWARMNow(ee, minutesSinceMidnight, onT) ==
    \E which \in ScheduleSlots : scheduleOnAt(ee, which, minutesSinceMidnight, onT)

\* The look-ahead time of isAnyScheduleOnWARMSoon().
lookAhead(minutesSinceMidnight) ==
    LET mm0 == ToUint16(minutesSinceMidnight + PREPREWARM_MINS)
    IN  IF mm0 >= MINS_PER_DAY THEN mm0 - MINS_PER_DAY ELSE mm0

isAnyScheduleOnWARMSoon(ee, minutesSinceMidnight, onT) ==
    \E which \in ScheduleSlots :
        scheduleOnAt(ee, which, lookAhead(minutesSinceMidnight), onT)

\* onTime(): the length of the on period after the requested start, by bias.
onTime(ecoBias) ==
    IF ecoBias THEN LEARNED_ON_PERIOD_M ELSE LEARNED_ON_PERIOD_COMFORT_M

\* No schedule call has been made: the EEPROM is unprogrammed.
noScheduleActivity ==
    /\ eeprom = [which \in ScheduleSlots |-> unprogrammedByte]
    /\ scheduleEcoBias \in BOOLEAN
    /\ schedCall = [ op |-> "none", startMinutesSinceMidnightLT |-> 0,
                     which |-> 0, result |-> FALSE, wasSet |-> FALSE ]

\* The valve controller runs without the schedule: eco bias, clock not consulted.
scheduleUnused ==
    /\ noScheduleActivity
    /\ scheduleEcoBias = TRUE
    /\ minutesSinceMidnightLT = 0

----------------------------------------------------------------------------
(* The caller: input states, temperatures and valve positions explored.    *)

\* The input state as the caller sets it up before a tick.
ModelledRadValveInputState(targetC, b, wd, gl, eco, bake, fast, realTempC16) ==
    [ targetTempC |-> targetC, minPCOpen |-> b[1], maxPCOpen |-> b[2],
      widenDeadband |-> wd, glacial |-> gl, hasEcoBias |-> eco,
      inBakeMode |-> bake, fastResponseRequired |-> fast,
      refTempC16 |-> realTempC16 + refTempOffsetC16 ]

setReferenceTemperatures(in, currentTempC16) ==
    [in EXCEPT !.refTempC16 = currentTempC16 + refTempOffsetC16]

\* Raw room temperatures (C/16) fed to the controller: 19 3/8 C, 19 1/2 C, 20 5/8 C.
\* Two are within MAX_TEMP_JUMP_C16 of each other, the third a jump away.
RawTempsC16 == { 310, 312, 330 }

\* Target temperatures: they put the readings under, at and over target.
TargetsC == { 19, 20, 21 }

\* (minPCOpen, maxPCOpen) pairs explored.
PCBounds == { <<DEFAULT_VALVE_PC_MIN_REALLY_OPEN, 100>>, <<0, 1>> }

\* All input states explored, for a given real temperature.
InputStates(realTempC16) ==
    { ModelledRadValveInputState(tc, b, wd, gl, eco, bake, fast, realTempC16) :
        tc \in TargetsC, b \in PCBounds, wd \in BOOLEAN, gl \in BOOLEAN,
        eco \in BOOLEAN, bake \in BOOLEAN, fast \in BOOLEAN }

(* Spec: the control loop from construction.  The input state is set up    *)
(* once and then only its temperature changes from tick to tick.           *)

\* Input states of the control loop.
PollInputStates ==
    { in \in InputStates(312) :
        /\ in.targetTempC = 20
        /\ in.glacial = FALSE /\ in.fastResponseRequired = FALSE
        /\ in.inBakeMode = FALSE }

\* Valve positions the control loop starts from.
PollStartPCs == { 0, 9 }

\* Raw room temperatures (C/16) read by the control loop.
PollRawTempsC16 == { 310, 326, 328 }

Init ==
    /\ scheduleUnused
    /\ caller = "poll"
    /\ valvePCOpen \in PollStartPCs
    /\ inputState \in PollInputStates
    /\ prevRawTempC16 = [i \in Slots |-> 0]
    /\ initialised = FALSE
    /\ isFiltering = FALSE
    /\ wasFiltering = FALSE
    /\ valveMoved = FALSE
    /\ cumulativeMovementPC = 0
    /\ valveTurndownCountdownM = 0
    /\ valveTurnupCountdownM = 0

\* One control tick with a new temperature reading and otherwise unchanged input state.
Tick ==
    /\ caller = "poll"
    /\ \E t \in PollRawTempsC16 : tick(setReferenceTemperatures(inputState, t))
    /\ cumulativeMovementPC' <= MaxCumulativeMovementPC
    /\ UNCHANGED caller
    /\ UNCHANGED schedVars

Next == Tick

Spec == Init /\ [][Next]_vars

(* SpecAny: a single tick() applied to any control state, valve position   *)
(* and input state, as a unit test of the controller does.                 *)

\* Valve positions a test starts from.
TestStartPCs == { 0, 9, 12, 20, 60, 100 }

\* Countdown pairs <<valveTurndownCountdownM, valveTurnupCountdownM>> a test starts from.
TestCountdowns ==
    { <<0, 0>>,
      <<DEFAULT_ANTISEEK_VALVE_REOPEN_DELAY_M, 0>>,
      <<0, DEFAULT_ANTISEEK_VALVE_RECLOSE_DELAY_M>>,
      <<DEFAULT_ANTISEEK_VALVE_REOPEN_DELAY_M, DEFAULT_ANTISEEK_VALVE_RECLOSE_DELAY_M - 1>> }

\* What tick() establishes of the control state, whatever its inputs were.
tickedControlState ==
    /\ initialised
    /\ inputState.refTempC16 = prevRawTempC16[0] + refTempOffsetC16
    /\ anyJump(prevRawTempC16) => isFiltering
    /\ isFiltering =>
           \/ anyJump(prevRawTempC16)
           \/ abs(getSmoothedRecent(prevRawTempC16) - prevRawTempC16[0]) > MAX_TEMP_JUMP_C16
    /\ valveTurndownCountdownM \in 0 .. DEFAULT_ANTISEEK_VALVE_REOPEN_DELAY_M
    /\ valveTurnupCountdownM \in 0 .. DEFAULT_ANTISEEK_VALVE_RECLOSE_DELAY_M
    /\ valveMoved <=>
           \/ valveTurndownCountdownM = DEFAULT_ANTISEEK_VALVE_REOPEN_DELAY_M
           \/ valveTurnupCountdownM = DEFAULT_ANTISEEK_VALVE_RECLOSE_DELAY_M
    /\ ~ /\ valveTurndownCountdownM = DEFAULT_ANTISEEK_VALVE_REOPEN_DELAY_M
         /\ valveTurnupCountdownM = DEFAULT_ANTISEEK_VALVE_RECLOSE_DELAY_M

InitAny ==
    /\ scheduleUnused
    /\ caller = "test"
    /\ valvePCOpen \in TestStartPCs
    /\ initialised = TRUE
    /\ prevRawTempC16 \in [Slots -> RawTempsC16]
    /\ prevRawTempC16[filterLength - 1] = prevRawTempC16[filterLength - 2]
    /\ inputState \in InputStates(prevRawTempC16[0])
    /\ isFiltering \in BOOLEAN
    /\ wasFiltering = isFiltering
    /\ \E cd \in TestCountdowns :
           valveTurndownCountdownM = cd[1] /\ valveTurnupCountdownM = cd[2]
    /\ valveMoved = (<<valveTurndownCountdownM, valveTurnupCountdownM>> # <<0, 0>>)
    /\ cumulativeMovementPC =
           (IF valveTurndownCountdownM > 0 THEN 1 ELSE 0)
           + (IF valveTurnupCountdownM > 0 THEN 1 ELSE 0)
    /\ tickedControlState

\* The test's tick: a new temperature reading, the input state otherwise as set up.
TestTick ==
    /\ caller = "test"
    /\ \E t \in RawTempsC16 : tick(setReferenceTemperatures(inputState, t))
    /\ caller' = "done"
    /\ UNCHANGED schedVars

NextAny == TestTick

SpecAny == InitAny /\ [][NextAny]_vars

(* SpecFresh: the first tick() of a freshly constructed control state, for  *)
(* any input state and valve position.                                     *)

\* Raw temperatures (C/16) of a first tick: -1 C, 15 C, 19 C, 19 7/8 C, 21 C.
FreshRawTempsC16 == { -16, 240, 304, 318, 336 }

\* (minPCOpen, maxPCOpen) pairs of a first tick.
FreshPCBounds == PCBounds \cup { <<10, 100>> }

\* Input states of a first tick.
FreshInputStates ==
    { ModelledRadValveInputState(20, b, wd, gl, eco, bake, fast, t) :
        b \in FreshPCBounds, wd \in BOOLEAN, gl \in BOOLEAN,
        eco \in BOOLEAN, bake \in BOOLEAN, fast \in BOOLEAN, t \in FreshRawTempsC16 }

InitFresh ==
    /\ scheduleUnused
    /\ caller = "fresh"
    /\ valvePCOpen \in TestStartPCs
    /\ inputState \in FreshInputStates
    /\ prevRawTempC16 = [i \in Slots |-> 0]
    /\ initialised = FALSE
    /\ isFiltering = FALSE
    /\ wasFiltering = FALSE
    /\ valveMoved = FALSE
    /\ cumulativeMovementPC = 0
    /\ valveTurndownCountdownM = 0
    /\ valveTurnupCountdownM = 0

\* The first tick, with the input state as constructed.
FirstTick ==
    /\ caller = "fresh"
    /\ tick(inputState)
    /\ caller' = "done"
    /\ UNCHANGED schedVars

NextFresh == FirstTick

SpecFresh == InitFresh /\ [][NextFresh]_vars

(* SpecNear: a single tick() applied to any control state whose readings   *)
(* lie just over a 20 C target (at a 21 C target, just under a 22 C one):  *)
(* two readings within MAX_TEMP_JUMP_C16 of each other and one a jump      *)
(* above them.  The countdowns include ones about to run out.              *)

\* Raw temperatures (C/16): 20 3/4 C, 20 13/16 C, 21 1/16 C.
NearRawTempsC16 == { 332, 333, 337 }

\* Target temperatures.
NearTargetsC == { 20, 21, 22 }

\* Valve positions: shut, the proportional target of the warmest reading, fully open.
NearStartPCs == { 0, 42, 100 }

\* Countdown pairs <<valveTurndownCountdownM, valveTurnupCountdownM>>.
NearCountdowns ==
    { <<0, 0>>, <<1, 0>>, <<0, 1>>,
      <<DEFAULT_ANTISEEK_VALVE_REOPEN_DELAY_M, DEFAULT_ANTISEEK_VALVE_RECLOSE_DELAY_M - 1>> }

\* Input states, for a given real temperature.
NearInputStates(realTempC16) ==
    { ModelledRadValveInputState(tc, b, wd, gl, eco, bake, fast, realTempC16) :
        tc \in NearTargetsC, b \in PCBounds, wd \in BOOLEAN, gl \in BOOLEAN,
        eco \in BOOLEAN, bake \in BOOLEAN, fast \in BOOLEAN }

InitNear ==
    /\ scheduleUnused
    /\ caller = "near"
    /\ valvePCOpen \in NearStartPCs
    /\ initialised = TRUE
    /\ prevRawTempC16 \in [Slots -> NearRawTempsC16]
    /\ prevRawTempC16[filterLength - 1] = prevRawTempC16[filterLength - 2]
    /\ inputState \in NearInputStates(prevRawTempC16[0])
    /\ isFiltering \in BOOLEAN
    /\ wasFiltering = isFiltering
    /\ \E cd \in NearCountdowns :
           valveTurndownCountdownM = cd[1] /\ valveTurnupCountdownM = cd[2]
    /\ valveMoved = (valveTurndownCountdownM = DEFAULT_ANTISEEK_VALVE_REOPEN_DELAY_M)
    /\ cumulativeMovementPC =
           (IF valveTurndownCountdownM > 0 THEN 1 ELSE 0)
           + (IF valveTurnupCountdownM > 0 THEN 1 ELSE 0)
    /\ tickedControlState

\* The tick: a new temperature reading, the input state otherwise as set up.
NearTick ==
    /\ caller = "near"
    /\ \E t \in NearRawTempsC16 : tick(setReferenceTemperatures(inputState, t))
    /\ caller' = "done"
    /\ UNCHANGED schedVars

NextNear == NearTick

SpecNear == InitNear /\ [][NextNear]_vars

(* SpecSteady: from any control state, ticks that are all fed the same     *)
(* snapshot: the first brings a new temperature reading, every later one   *)
(* the same input state again.                                             *)

\* Raw temperatures (C/16): 19 3/8 C, 20 5/8 C, 20 3/4 C.  The last two are within
\* MAX_TEMP_JUMP_C16 of each other, the first a jump below them.
SteadyRawTempsC16 == { 310, 330, 332 }

\* Target temperatures: the readings are at and well over the first, under and just
\* over the second, well under and at the third.
SteadyTargetsC == { 19, 20, 21 }

\* Valve positions before the first of the ticks.
SteadyStartPCs == { 0, 9, 60, 100 }

\* Countdown pairs <<valveTurndownCountdownM, valveTurnupCountdownM>>.
SteadyCountdowns ==
    { <<0, 0>>,
      <<DEFAULT_ANTISEEK_VALVE_REOPEN_DELAY_M, 0>>,
      <<0, DEFAULT_ANTISEEK_VALVE_RECLOSE_DELAY_M - 1>> }

\* Input states, for a given real temperature: not in bake mode.
SteadyInputStates(realTempC16) ==
    { ModelledRadValveInputState(tc, b, wd, gl, eco, FALSE, fast, realTempC16) :
        tc \in SteadyTargetsC, b \in PCBounds, wd \in BOOLEAN, gl \in BOOLEAN,
        eco \in BOOLEAN, fast \in BOOLEAN }

InitSteady ==
    /\ scheduleUnused
    /\ caller = "steady"
    /\ valvePCOpen \in SteadyStartPCs
    /\ initialised = TRUE
    /\ prevRawTempC16 \in [Slots -> SteadyRawTempsC16]
    /\ \A i \in Slots : i >= 1 => prevRawTempC16[i] = prevRawTempC16[1]
    /\ inputState \in SteadyInputStates(prevRawTempC16[0])
    /\ isFiltering \in BOOLEAN
    /\ wasFiltering = isFiltering
    /\ \E cd \in SteadyCountdowns :
           valveTurndownCountdownM = cd[1] /\ valveTurnupCountdownM = cd[2]
    /\ valveMoved = (valveTurndownCountdownM = DEFAULT_ANTISEEK_VALVE_REOPEN_DELAY_M)
    /\ cumulativeMovementPC =
           (IF valveTurndownCountdownM > 0 THEN 1 ELSE 0)
           + (IF valveTurnupCountdownM > 0 THEN 1 ELSE 0)
    /\ tickedControlState

\* The first of the ticks: a new temperature reading, the input state otherwise as set up.
SnapshotArrives ==
    /\ caller = "steady"
    /\ \E t \in SteadyRawTempsC16 : tick(setReferenceTemperatures(inputState, t))
    /\ caller' = "same"
    /\ UNCHANGED schedVars

\* Every later tick: the same input state again.
SameSnapshotAgain ==
    /\ caller = "same"
    /\ tick(inputState)
    /\ UNCHANGED caller
    /\ UNCHANGED schedVars

NextSteady ==
    \/ SnapshotArrives
    \/ SameSnapshotAgain

SpecSteady == InitSteady /\ [][NextSteady]_vars

(* SpecBand: a single tick() applied to any control state whose readings   *)
(* all lie within the degree of the 20 C target, i.e. in the proportional  *)
(* band, from valve positions near to and far from the proportional        *)
(* targets.                                                                *)

\* Raw temperatures (C/16): 19 9/16 C, 20 1/8 C, 20 5/16 C; with the offset they have
\* the sub-degree bits 1, 10 and 13 and the proportional targets 90, 36 and 18.  The
\* last two are within MAX_TEMP_JUMP_C16 of each other, the first a jump below them.
BandRawTempsC16 == { 313, 322, 325 }

\* Valve positions: 7 to 10 away from a proportional target (9, 28, 44, 80) and far
\* from all of them.
BandStartPCs == { 0, 9, 28, 44, 80, 100 }

\* Countdown pairs <<valveTurndownCountdownM, valveTurnupCountdownM>>.
BandCountdowns ==
    { <<0, 0>>,
      <<DEFAULT_ANTISEEK_VALVE_REOPEN_DELAY_M, 0>>,
      <<0, DEFAULT_ANTISEEK_VALVE_RECLOSE_DELAY_M - 1>> }

\* Input states, for a given real temperature.
BandInputStates(realTempC16) ==
    { ModelledRadValveInputState(20, b, wd, gl, eco, bake, fast, realTempC16) :
        b \in PCBounds, wd \in BOOLEAN, gl \in BOOLEAN,
        eco \in BOOLEAN, bake \in BOOLEAN, fast \in BOOLEAN }

InitBand ==
    /\ scheduleUnused
    /\ caller = "band"
    /\ valvePCOpen \in BandStartPCs
    /\ initialised = TRUE
    /\ prevRawTempC16 \in [Slots -> BandRawTempsC16]
    /\ prevRawTempC16[filterLength - 1] = prevRawTempC16[filterLength - 2]
    /\ inputState \in BandInputStates(prevRawTempC16[0])
    /\ isFiltering \in BOOLEAN
    /\ wasFiltering = isFiltering
    /\ \E cd \in BandCountdowns :
           valveTurndownCountdownM = cd[1] /\ valveTurnupCountdownM = cd[2]
    /\ valveMoved = (valveTurndownCountdownM = DEFAULT_ANTISEEK_VALVE_REOPEN_DELAY_M)
    /\ cumulativeMovementPC =
           (IF valveTurndownCountdownM > 0 THEN 1 ELSE 0)
           + (IF valveTurnupCountdownM > 0 THEN 1 ELSE 0)
    /\ tickedControlState

\* The tick: a new temperature reading, the input state otherwise as set up.
BandTick ==
    /\ caller = "band"
    /\ \E t \in BandRawTempsC16 : tick(setReferenceTemperatures(inputState, t))
    /\ caller' = "done"
    /\ UNCHANGED schedVars

NextBand == BandTick

SpecBand == InitBand /\ [][NextBand]_vars

(* SpecSched: the schedule store of a device whose EEPROM starts           *)
(* unprogrammed, with calls of setSimpleSchedule() and                     *)
(* clearSimpleSchedule() for any schedule number, at any time of day and   *)
(* under either bias.                                                      *)

\* Schedule numbers passed by callers (uint8_t): the valid ones, the first invalid one
\* and the largest.
ScheduleNumbers == ScheduleSlots \cup { MAX_SIMPLE_SCHEDULES, 255 }

\* Start times passed by callers (uint_least16_t): midnight and 00:29, whose pre-warm
\* starts before midnight; 00:30; 12:11, rounded down; 23:30, whose on period ends after
\* midnight; the last minute of the day; and two invalid times.
ScheduleStartTimes == { 0, 29, 30, 731, 1410, 1439, 1440, 65535 }

\* Times of day (minutes since midnight) at which the schedule is queried.
ClockTimes == { 0, 10, 89, 90, 700, 1379, 1410, 1439 }

InitSched ==
    /\ caller = "sched"
    /\ noScheduleActivity
    /\ minutesSinceMidnightLT \in ClockTimes
    /\ valvePCOpen = 0
    /\ inputState =
           ModelledRadValveInputState(20, <<DEFAULT_VALVE_PC_MIN_REALLY_OPEN, 100>>,
                                      FALSE, FALSE, FALSE, FALSE, FALSE, 312)
    /\ prevRawTempC16 = [i \in Slots |-> 0]
    /\ initialised = FALSE
    /\ isFiltering = FALSE
    /\ wasFiltering = FALSE
    /\ valveMoved = FALSE
    /\ cumulativeMovementPC = 0
    /\ valveTurndownCountdownM = 0
    /\ valveTurnupCountdownM = 0

\* A call of setSimpleSchedule(startMinutesSinceMidnightLT, which).
SetSimpleSchedule ==
    /\ caller = "sched"
    /\ \E t \in ScheduleStartTimes, which \in ScheduleNumbers :
           /\ eeprom' = setSimpleSchedule(eeprom, t, which)
           /\ schedCall' = [ op |-> "set", startMinutesSinceMidnightLT |-> t,
                             which |-> which,
                             result |-> setSimpleScheduleAccepts(t, which),
                             wasSet |-> getSimpleScheduleOn(eeprom, which) # invalidTime ]
    /\ UNCHANGED << minutesSinceMidnightLT, scheduleEcoBias, caller >>
    /\ UNCHANGED valveVars

\* A call of clearSimpleSchedule(which).
ClearSimpleSchedule ==
    /\ caller = "sched"
    /\ \E which \in ScheduleNumbers :
           /\ eeprom' = clearSimpleSchedule(eeprom, which)
           /\ schedCall' = [ op |-> "clear", startMinutesSinceMidnightLT |-> 0,
                             which |-> which, result |-> FALSE,
                             wasSet |-> getSimpleScheduleOn(eeprom, which) # invalidTime ]
    /\ UNCHANGED << minutesSinceMidnightLT, scheduleEcoBias, caller >>
    /\ UNCHANGED valveVars

\* Time passes: the next query sees another time of day.
ClockMoves ==
    /\ caller = "sched"
    /\ minutesSinceMidnightLT' \in ClockTimes \ { minutesSinceMidnightLT }
    /\ UNCHANGED << eeprom, scheduleEcoBias, schedCall, caller >>
    /\ UNCHANGED valveVars

\* The user changes the eco/comfort bias, and with it onTime().
BiasChanges ==
    /\ caller = "sched"
    /\ scheduleEcoBias' = ~scheduleEcoBias
    /\ UNCHANGED << eeprom, minutesSinceMidnightLT, schedCall, caller >>
    /\ UNCHANGED valveVars

NextSched ==
    \/ SetSimpleSchedule
    \/ ClearSimpleSchedule
    \/ ClockMoves
    \/ BiasChanges

SpecSched == InitSched /\ [][NextSched]_vars

\* What the queries return in the current state.
curScheduleOn(which) == getSimpleScheduleOn(eeprom, which)
curScheduleOff(which) == getSimpleScheduleOff(eeprom, which, onTime(scheduleEcoBias))
curAnyScheduleSet == isAnySimpleScheduleSet(eeprom)
curWARMNow == isAnyScheduleOnWARMNow(eeprom, minutesSinceMidnightLT, onTime(scheduleEcoBias))
curWARMSoon == isAnyScheduleOnWARMSoon(eeprom, minutesSinceMidnightLT, onTime(scheduleEcoBias))

\* Every state of the control loop after its first tick is a ticked control state.
TickedControlStateOK == initialised => tickedControlState

----------------------------------------------------------------------------
(* What the latest tick() saw.  tick() updates the filter memory and       *)
(* isFiltering before it calls computeRequiredTRVPercentOpen(), so in an   *)
(* action formula the primed forms are the values that call used.          *)

curAdjustedTempC16 == adjustedTempC16(inputState, prevRawTempC16, isFiltering)
curAdjustedTempC == adjustedTempC(inputState, prevRawTempC16, isFiltering)
zoneUnder == curAdjustedTempC < inputState.targetTempC
zoneOver == curAdjustedTempC > inputState.targetTempC
zoneAtTarget == curAdjustedTempC = inputState.targetTempC
curTargetPO == targetPOFor(inputState, curAdjustedTempC16)
windowGuardFires ==
    /\ zoneUnder
    /\ ~inputState.inBakeMode
    /\ windowOpenDetected(inputState, prevRawTempC16, isFiltering)
percentWithinBounds ==
    inputState.minPCOpen <= valvePCOpen /\ valvePCOpen <= inputState.maxPCOpen
\* The input state apart from its temperature.
configOf(in) == [in EXCEPT !.refTempC16 = 0]

----------------------------------------------------------------------------
(* Claims.                                                                 *)

\* C1: the percent written by tick() lies in [0,100] in every reachable state.
\* Refuted: with valvePCOpen above maxPCOpen and below TRV_SLEW_PC_PER_MIN_FAST the
\* over-target fast close returns valvePCOpen - TRV_SLEW_PC_PER_MIN_FAST, which wraps.
C1_PercentInRange == valvePCOpen \in 0 .. 100

\* C2 as stated: with a fixed input state not in bake mode, on a tick where the
\* window-open guard does not fire, a percent within [minPCOpen, maxPCOpen] stays
\* within [minPCOpen, maxPCOpen].
C2_StaysWithinBounds ==
    [][ ( /\ configOf(inputState') = configOf(inputState)
          /\ ~inputState'.inBakeMode
          /\ ~windowGuardFires'
          /\ percentWithinBounds )
        => percentWithinBounds' ]_vars

\* C2 amended: under the same conditions, a tick at or under target keeps the percent
\* at or above minPCOpen, and a tick at or over target keeps it at or below maxPCOpen.
C2_BoundsByZone ==
    [][ ( /\ configOf(inputState') = configOf(inputState)
          /\ ~inputState'.inBakeMode
          /\ ~windowGuardFires'
          /\ percentWithinBounds )
        => /\ ~zoneOver' => valvePCOpen' >= inputState'.minPCOpen
           /\ ~zoneUnder' => valvePCOpen' <= inputState'.maxPCOpen ]_vars

\* C2 witness: a tick at target moved the valve and left it within the bounds.
C2_Witness ==
    /\ caller = "done" /\ zoneAtTarget /\ valveMoved
    /\ ~inputState.inBakeMode /\ percentWithinBounds
    /\ inputState.minPCOpen = DEFAULT_VALVE_PC_MIN_REALLY_OPEN

\* C3: a tick never raises the valve above maxPCOpen: a percent <= maxPCOpen before a
\* tick is <= maxPCOpen after it.  Refuted by the open-from-cold jump to
\* max(slewRate, minPCOpen), which is not capped at maxPCOpen.
C3_NeverAboveMax ==
    [][ valvePCOpen <= inputState'.maxPCOpen
        => valvePCOpen' <= inputState'.maxPCOpen ]_vars

\* C4: in bake mode, under target, or at target with targetPO above the current
\* percent, one tick sets the percent to exactly maxPCOpen, whatever the countdowns,
\* the filtering flag, the other flags and the temperature history are.
C4_BakeOverride ==
    [][ ( /\ inputState'.inBakeMode
          /\ \/ zoneUnder'
             \/ (zoneAtTarget' /\ curTargetPO' > valvePCOpen) )
        => valvePCOpen' = inputState'.maxPCOpen ]_vars

\* C4 witness: bake mode opened the valve to maxPCOpen under target although turn-up
\* was suppressed and filtering engaged.
C4_Witness ==
    /\ caller = "done" /\ inputState.inBakeMode /\ zoneUnder
    /\ valveMoved /\ valvePCOpen = inputState.maxPCOpen
    /\ valveTurndownCountdownM > 0 /\ isFiltering
    /\ inputState.hasEcoBias /\ inputState.glacial /\ inputState.widenDeadband

\* C5 as stated: on a tick where dontTurndown() holds after the countdown decrement the
\* percent is not decreased, in every zone and for every input state.
C5_NoCloseWhileSuppressed ==
    [][ dontTurndown(countDown(valveTurnupCountdownM))
        => valvePCOpen' >= valvePCOpen ]_vars

\* C5 amended: the same, for a percent that is not above maxPCOpen before the tick
\* (a percent above maxPCOpen is cut back to maxPCOpen under target regardless).
C5_NoCloseWhileSuppressedWithinMax ==
    [][ ( /\ dontTurndown(countDown(valveTurnupCountdownM))
          /\ valvePCOpen <= inputState'.maxPCOpen )
        => valvePCOpen' >= valvePCOpen ]_vars

\* C5 witness: over target with the valve open, the tick held because turn-down was
\* suppressed.
C5_Witness ==
    /\ caller = "done" /\ zoneOver /\ valvePCOpen > 0
    /\ valvePCOpen <= inputState.maxPCOpen
    /\ ~valveMoved /\ valveTurnupCountdownM > 0
    /\ ~isFiltering /\ ~inputState.widenDeadband

\* C6: on a tick where dontTurnup() holds after the countdown decrement and inBakeMode
\* is false the percent is not increased, in every zone.  Refuted through the
\* wrap-around of C1: the over-target close is not guarded by dontTurnup().
C6_NoOpenWhileSuppressed ==
    [][ ( /\ dontTurnup(countDown(valveTurndownCountdownM))
          /\ ~inputState'.inBakeMode )
        => valvePCOpen' <= valvePCOpen ]_vars

\* C7: window-open fast close.  Under target, not in bake mode, with eco bias, above
\* the frost floor, last raw delta < 0 and the fall over the window <= -16: if
\* turn-down is not suppressed the new percent is DEFAULT_VALVE_PC_SAFER_OPEN-1 from
\* DEFAULT_VALVE_PC_SAFER_OPEN or more, else the percent less the normal max slew if
\* it exceeds that slew, else 0; if turn-down is suppressed it is unchanged.
C7_WindowOpenFastClose ==
    [][ ( /\ zoneUnder'
          /\ ~inputState'.inBakeMode
          /\ inputState'.hasEcoBias
          /\ curAdjustedTempC' > MIN_VALVE_TARGET_C
          /\ prevRawTempC16'[0] - prevRawTempC16'[1] < 0
          /\ prevRawTempC16'[0]
               - prevRawTempC16'[min(MIN_WINDOW_OPEN_TEMP_FALL_M, filterLength - 1)] <= -16 )
        => /\ valvePCOpen' =
                IF valveTurnupCountdownM > 1 THEN valvePCOpen
                ELSE IF valvePCOpen >= DEFAULT_VALVE_PC_SAFER_OPEN
                     THEN DEFAULT_VALVE_PC_SAFER_OPEN - 1
                ELSE IF valvePCOpen > TRV_MAX_SLEW_PC_PER_MIN
                     THEN valvePCOpen - TRV_MAX_SLEW_PC_PER_MIN
                ELSE 0
           /\ valvePCOpen' <= valvePCOpen
           /\ (valveTurnupCountdownM <= 1 /\ valvePCOpen > 0) => valvePCOpen' < valvePCOpen
      ]_vars

\* C7 witness: the guard fired and closed the valve to DEFAULT_VALVE_PC_SAFER_OPEN-1.
C7_Witness ==
    /\ caller = "done" /\ windowGuardFires /\ valveMoved
    /\ valvePCOpen = DEFAULT_VALVE_PC_SAFER_OPEN - 1
    /\ valveTurndownCountdownM = DEFAULT_ANTISEEK_VALVE_REOPEN_DELAY_M

\* C8: after every tick, if any two adjacent entries of the temperature history differ
\* by more than MAX_TEMP_JUMP_C16 then isFiltering is true.
C8_JumpEngagesFilter ==
    ( /\ initialised
      /\ \E i \in 1 .. (filterLength - 1) :
            \/ prevRawTempC16[i] - prevRawTempC16[i - 1] > 3
            \/ prevRawTempC16[i - 1] - prevRawTempC16[i] > 3 )
    => isFiltering

\* C8 witness: the newest sample alone brought the jump in and the filter, off on entry
\* to the tick, is on.
C8_Witness ==
    /\ initialised /\ isFiltering /\ ~wasFiltering
    /\ abs(prevRawTempC16[0] - prevRawTempC16[1]) > 3
    /\ prevRawTempC16[1] = prevRawTempC16[2]
    /\ prevRawTempC16[2] = prevRawTempC16[3]

\* C9: isFiltering goes from true to false over a tick only if, with the new sample
\* pushed, the newest raw sample is within 3 of the smoothed mean and no adjacent pair
\* of the history differs by more than 3.
C9_FilterSticky ==
    ( initialised /\ wasFiltering /\ ~isFiltering )
    => /\ abs(getSmoothedRecent(prevRawTempC16) - prevRawTempC16[0]) <= 3
       /\ \A i \in 1 .. (filterLength - 1) :
             abs(prevRawTempC16[i] - prevRawTempC16[i - 1]) <= 3

\* C9 witness: a tick disengaged the filter.
C9_Witness ==
    /\ initialised /\ wasFiltering /\ ~isFiltering
    /\ prevRawTempC16[0] # prevRawTempC16[filterLength - 1]

\* Equilibrium on the latest tick: at target, targetPO equal to the percent, which the
\* tick left as it was.
atEquilibrium ==
    /\ initialised
    /\ zoneAtTarget
    /\ curTargetPO = valvePCOpen

\* C10 as stated: after a tick at equilibrium, a further tick fed the same input state
\* leaves the percent unchanged, also when filtering is engaged.
C10_EquilibriumHolds ==
    [][ ( atEquilibrium /\ inputState' = inputState )
        => valvePCOpen' = valvePCOpen ]_vars

\* C10 amended: after a tick at equilibrium with filtering not engaged, a further tick
\* fed the same input state leaves the percent unchanged and is again at equilibrium
\* with filtering not engaged (so every further such tick leaves it unchanged).
C10_UnfilteredEquilibriumHolds ==
    [][ ( atEquilibrium /\ ~isFiltering /\ inputState' = inputState )
        => /\ valvePCOpen' = valvePCOpen
           /\ atEquilibrium' /\ ~isFiltering' ]_vars

\* C10 witness: unfiltered equilibrium on a tick fed the same temperature as the tick
\* before it.
C10_Witness ==
    /\ atEquilibrium /\ ~isFiltering /\ ~wasFiltering
    /\ prevRawTempC16[0] = prevRawTempC16[1]
    /\ valvePCOpen > 0

\* The input state of Scenario A for a given raw temperature: target 20 C, minPCOpen 10,
\* maxPCOpen 100, all mode flags false.
scenarioAInput(rawTempC16) ==
    ModelledRadValveInputState(20, <<10, 100>>, FALSE, FALSE, FALSE, FALSE, FALSE, rawTempC16)

\* C11 as stated (Scenario A): the first tick of a fresh control state with target 20 C,
\* minPCOpen 10, maxPCOpen 100, no flags, percent 0 and raw temperature 15 C leaves the
\* percent at max(normal max slew rate, 10) = 10.
C11_ScenarioAOpensToMin ==
    [][ ( ~initialised /\ valvePCOpen = 0 /\ inputState' = scenarioAInput(15 * 16) )
        => valvePCOpen' = 10 ]_vars

\* C11 amended: in Scenario A (raw temperature 15 C, more than 1 C under target, no wide
\* deadband) the first tick jumps to the capped moderately-open threshold
\* min(maxPCOpen, min(99, DEFAULT_VALVE_PC_MODERATELY_OPEN + fast slew)), above 10; with raw
\* temperature 19 C (under target by less) it takes the open-from-cold path to
\* max(normal max slew rate, 10) = 10.
C11_ScenarioAJumpsToModeratelyOpen ==
    [][ ( ~initialised /\ valvePCOpen = 0 )
        => /\ inputState' = scenarioAInput(15 * 16)
                => /\ valvePCOpen' =
                        IF DEFAULT_VALVE_PC_MODERATELY_OPEN + 10 < 99
                        THEN DEFAULT_VALVE_PC_MODERATELY_OPEN + 10 ELSE 99
                   /\ valvePCOpen' > 10
           /\ inputState' = scenarioAInput(19 * 16)
                => valvePCOpen' = 10 ]_vars

\* C11 witness: Scenario A has run: history filled with 15 C, valve moved, opening armed
\* the turn-down inhibit.
C11_Witness ==
    /\ caller = "done" /\ inputState = scenarioAInput(15 * 16)
    /\ \A i \in Slots : prevRawTempC16[i] = 15 * 16
    /\ valveMoved /\ cumulativeMovementPC = valvePCOpen
    /\ valvePCOpen > 10
    /\ valveTurnupCountdownM > 0

\* C12 (Scenario B): whenever adjustedC = targetTempC + 1, widenDeadband is true and the
\* last raw delta is negative, the tick leaves the percent unchanged, for every percent,
\* cooldown state, filtering state and value of the other flags.
C12_HoldWhileCoolingJustOver ==
    [][ ( /\ curAdjustedTempC' = inputState'.targetTempC + 1
          /\ inputState'.widenDeadband
          /\ prevRawTempC16'[0] - prevRawTempC16'[1] < 0 )
        => valvePCOpen' = valvePCOpen ]_vars

\* C12 witness: the hold happened with the valve open, turn-down not inhibited, no
\* filtering and no eco bias (where the valve would otherwise be closed).
C12_Witness ==
    /\ caller = "done"
    /\ curAdjustedTempC = inputState.targetTempC + 1
    /\ inputState.widenDeadband /\ ~inputState.hasEcoBias
    /\ prevRawTempC16[0] - prevRawTempC16[1] < 0
    /\ ~isFiltering /\ ~valveMoved
    /\ valveTurnupCountdownM = 0 /\ valveTurndownCountdownM = 0
    /\ valvePCOpen = 100

\* C12 second witness state: the same hold with filtering engaged.
C12_FilteredCase ==
    /\ caller = "done"
    /\ curAdjustedTempC = inputState.targetTempC + 1
    /\ inputState.widenDeadband
    /\ prevRawTempC16[0] - prevRawTempC16[1] < 0
    /\ isFiltering /\ ~valveMoved /\ valveTurnupCountdownM = 0
    /\ valvePCOpen = 100

\* C13 (Scenario C, no-move tick): when the tick's candidate equals the current percent
\* the percent and cumulativeMovementPC are unchanged, valveMoved is false and neither
\* countdown is armed: each only takes its per-tick decrement.
C13_NoMoveTick ==
    [][ valvePCOpen' = valvePCOpen
        => /\ cumulativeMovementPC' = cumulativeMovementPC
           /\ ~valveMoved'
           /\ valveTurndownCountdownM' =
                  IF valveTurndownCountdownM > 0 THEN valveTurndownCountdownM - 1 ELSE 0
           /\ valveTurnupCountdownM' =
                  IF valveTurnupCountdownM > 0 THEN valveTurnupCountdownM - 1 ELSE 0 ]_vars

\* C13 witness: a tick at target with targetPO equal to the percent reported no move and
\* both countdowns, armed before it, were only decremented.
C13_Witness ==
    /\ caller = "done" /\ atEquilibrium /\ ~valveMoved
    /\ valvePCOpen = 42
    /\ valveTurndownCountdownM = DEFAULT_ANTISEEK_VALVE_REOPEN_DELAY_M - 1
    /\ valveTurnupCountdownM = DEFAULT_ANTISEEK_VALVE_RECLOSE_DELAY_M - 2
    /\ cumulativeMovementPC = 2

\* C14: cumulativeMovementPC never decreases over a tick and after each tick equals its
\* previous value plus exactly |new percent - old percent|.
C14_CumulativeMovement ==
    [][ /\ cumulativeMovementPC' >= cumulativeMovementPC
        /\ cumulativeMovementPC' =
               cumulativeMovementPC
               + (IF valvePCOpen' >= valvePCOpen
                  THEN valvePCOpen' - valvePCOpen ELSE valvePCOpen - valvePCOpen') ]_vars

\* C14 witness: a closing tick from fully open added its movement to the counter.
C14_Witness ==
    /\ caller = "done" /\ valveMoved
    /\ valveTurndownCountdownM = DEFAULT_ANTISEEK_VALVE_REOPEN_DELAY_M
    /\ valvePCOpen < 100
    /\ cumulativeMovementPC >= 100 - valvePCOpen
    /\ cumulativeMovementPC >= 10

\* C15: after every tick valveMoved is true if and only if that tick changed the percent.
C15_ValveMovedIffChanged ==
    [][ valveMoved' <=> (valvePCOpen' # valvePCOpen) ]_vars

\* C15 witness: a tick opened the valve from shut and reported the move.
C15_Witness ==
    /\ caller = "done" /\ valveMoved
    /\ valvePCOpen > 0 /\ cumulativeMovementPC = valvePCOpen
    /\ valveTurnupCountdownM = DEFAULT_ANTISEEK_VALVE_RECLOSE_DELAY_M

\* C16 (lazy warm-up): after the first tick of a freshly constructed control state,
\* initialised is true, every history entry equals that tick's raw temperature
\* (refTempC16 - 8), the smoothed mean equals that raw temperature, filtering is not
\* engaged and the temperature used for the decision is the unsmoothed refTempC16.
\* Refuted for raw temperatures below zero, where the smoothed mean is one too high (C17).
C16_LazyWarmUp ==
    [][ ~initialised
        => /\ initialised'
           /\ \A i \in Slots : prevRawTempC16'[i] = inputState'.refTempC16 - 8
           /\ getSmoothedRecent(prevRawTempC16') = inputState'.refTempC16 - 8
           /\ ~isFiltering'
           /\ curAdjustedTempC16' = inputState'.refTempC16 ]_vars

\* C17: getSmoothedRecent() is the arithmetic mean of the filterLength history entries
\* rounded to the nearest integer, ties rounded up: the integer m with
\* filterLength * m <= sum + filterLength / 2 < filterLength * (m + 1).
\* Refuted for negative sums, where the division truncates toward zero.
C17_MeanRoundedToNearest ==
    initialised =>
        LET sum == SumTo(prevRawTempC16, filterLength - 1)
            m == getSmoothedRecent(prevRawTempC16)
        IN  /\ filterLength * m <= sum + (filterLength \div 2)
            /\ sum + (filterLength \div 2) < filterLength * (m + 1)

\* C18: the countdowns are never negative; over a tick a countdown that is not re-armed
\* by a move is decremented by exactly 1 if positive and stays 0 if 0, and it increases
\* only when the percent changed in that tick; the decrement precedes the algorithm's
\* query: with the turn-up inhibit at 1, under target (not bake, no window-open close,
\* percent below maxPCOpen) the valve is opened in that tick, and with the turn-down
\* inhibit at 1, over target with the valve open (and no wide deadband with a falling
\* temperature) it is moved.
C18_Countdowns ==
    [][ /\ valveTurndownCountdownM >= 0 /\ valveTurnupCountdownM >= 0
        /\ valveTurndownCountdownM' >= 0 /\ valveTurnupCountdownM' >= 0
        /\ valvePCOpen' >= valvePCOpen =>
               valveTurndownCountdownM' =
                   IF valveTurndownCountdownM > 0 THEN valveTurndownCountdownM - 1 ELSE 0
        /\ valvePCOpen' <= valvePCOpen =>
               valveTurnupCountdownM' =
                   IF valveTurnupCountdownM > 0 THEN valveTurnupCountdownM - 1 ELSE 0
        /\ ( \/ valveTurndownCountdownM' > valveTurndownCountdownM
             \/ valveTurnupCountdownM' > valveTurnupCountdownM ) =>
               valvePCOpen' # valvePCOpen
        /\ ( /\ valveTurndownCountdownM = 1
             /\ zoneUnder' /\ ~inputState'.inBakeMode /\ ~windowGuardFires'
             /\ valvePCOpen < inputState'.maxPCOpen ) =>
               valvePCOpen' > valvePCOpen
        /\ ( /\ valveTurnupCountdownM = 1
             /\ zoneOver' /\ valvePCOpen > 0
             /\ ~(inputState'.widenDeadband /\ prevRawTempC16'[0] < prevRawTempC16'[1]) ) =>
               valvePCOpen' # valvePCOpen
      ]_vars

\* C18 witness: under target the valve was opened from shut in the tick in which the
\* turn-up inhibit ran out.
C18_Witness ==
    /\ caller = "done" /\ zoneUnder /\ valveMoved
    /\ valvePCOpen > 0 /\ cumulativeMovementPC = valvePCOpen + 1
    /\ valveTurndownCountdownM = 0
    /\ valveTurnupCountdownM = DEFAULT_ANTISEEK_VALVE_RECLOSE_DELAY_M

\* C19: a tick that increases the percent arms the turn-down inhibit (dontTurndown() true
\* right after it) and no other, a tick that decreases it arms the turn-up inhibit
\* (dontTurnup() true right after it) and no other, and a tick that leaves it unchanged
\* arms neither.
C19_ArmingDirection ==
    [][ /\ valvePCOpen' > valvePCOpen =>
               /\ valveTurnupCountdownM' = DEFAULT_ANTISEEK_VALVE_RECLOSE_DELAY_M
               /\ valveTurnupCountdownM' # 0
               /\ valveTurndownCountdownM' <= valveTurndownCountdownM
        /\ valvePCOpen' < valvePCOpen =>
               /\ valveTurndownCountdownM' = DEFAULT_ANTISEEK_VALVE_REOPEN_DELAY_M
               /\ valveTurndownCountdownM' # 0
               /\ valveTurnupCountdownM' <= valveTurnupCountdownM
        /\ valvePCOpen' = valvePCOpen =>
               /\ valveTurndownCountdownM' <= valveTurndownCountdownM
               /\ valveTurnupCountdownM' <= valveTurnupCountdownM ]_vars

\* C19 witness: a closing tick armed the turn-up inhibit while the turn-down inhibit,
\* armed before it, only ran down.
C19_Witness ==
    /\ caller = "done" /\ valveMoved
    /\ valveTurndownCountdownM = DEFAULT_ANTISEEK_VALVE_REOPEN_DELAY_M
    /\ valveTurnupCountdownM = 0
    /\ zoneOver /\ valvePCOpen < 60 /\ valvePCOpen > 0

\* C20 as stated: with glacial true and inBakeMode false a tick changes the percent by
\* at most 1, in every zone and for every control state.
C20_GlacialEveryZone ==
    [][ ( inputState'.glacial /\ ~inputState'.inBakeMode )
        => /\ valvePCOpen' - valvePCOpen <= 1
           /\ valvePCOpen - valvePCOpen' <= 1 ]_vars

\* C20 amended: with glacial true and inBakeMode false, a tick at or under target on
\* which the window-open guard does not fire, from a percent not above maxPCOpen, changes
\* the percent by at most 1 (over target and in the window-open close the glacial flag is
\* not consulted).
C20_GlacialAtOrUnderTarget ==
    [][ ( /\ inputState'.glacial /\ ~inputState'.inBakeMode
          /\ ~zoneOver' /\ ~windowGuardFires'
          /\ valvePCOpen <= inputState'.maxPCOpen )
        => /\ valvePCOpen' - valvePCOpen <= 1
           /\ valvePCOpen - valvePCOpen' <= 1 ]_vars

\* C20 witness: a glacial tick more than 1 C under target opened the valve by 1.
C20_Witness ==
    /\ caller = "done" /\ inputState.glacial /\ ~inputState.inBakeMode
    /\ curAdjustedTempC < inputState.targetTempC - 1
    /\ ~inputState.widenDeadband /\ inputState.fastResponseRequired
    /\ valveMoved /\ valvePCOpen = 21
    /\ valveTurnupCountdownM = DEFAULT_ANTISEEK_VALVE_RECLOSE_DELAY_M

----------------------------------------------------------------------------
(* Claims about the simple valve schedule.                                 *)

\* C21: a setSimpleSchedule() call with which >= MAX_SIMPLE_SCHEDULES or a start time
\* >= 1440 returns false and leaves every schedule byte unchanged; a
\* clearSimpleSchedule() call with which >= MAX_SIMPLE_SCHEDULES leaves every schedule
\* byte unchanged; and for every which >= MAX_SIMPLE_SCHEDULES getSimpleScheduleOn() and
\* getSimpleScheduleOff() return the invalid value.
C21_InvalidParametersIgnored ==
    [][ /\ ( /\ schedCall'.op = "set"
             /\ \/ schedCall'.which >= MAX_SIMPLE_SCHEDULES
                \/ schedCall'.startMinutesSinceMidnightLT >= 1440
             /\ SetSimpleSchedule )
           => ( ~schedCall'.result /\ eeprom' = eeprom )
        /\ ( /\ schedCall'.op = "clear"
             /\ schedCall'.which >= MAX_SIMPLE_SCHEDULES
             /\ ClearSimpleSchedule )
           => eeprom' = eeprom
        /\ \A which \in ScheduleNumbers :
               which >= MAX_SIMPLE_SCHEDULES =>
                   /\ curScheduleOn(which)' = invalidTime
                   /\ curScheduleOff(which)' = invalidTime
      ]_vars

\* C21 witness: a call with a valid schedule number and the start time 1440 was rejected
\* and the schedule set earlier in that slot is still there.
C21_Witness ==
    /\ schedCall.op = "set" /\ ~schedCall.result
    /\ schedCall.which = 0 /\ schedCall.startMinutesSinceMidnightLT = 1440
    /\ curScheduleOn(0) = 1380
    /\ curScheduleOn(MAX_SIMPLE_SCHEDULES) = invalidTime

\* C22: a setSimpleSchedule(t, which) call with which < MAX_SIMPLE_SCHEDULES and
\* t < 1440 returns true and leaves isAnySimpleScheduleSet() true and
\* getSimpleScheduleOn(which) a valid time; a valid getSimpleScheduleOn(w) stays valid,
\* and isAnySimpleScheduleSet() true, over every step that is not a
\* clearSimpleSchedule(w) call; and in every state isAnySimpleScheduleSet() is true
\* exactly when getSimpleScheduleOn(w) is valid for some schedule w.
C22_SetUntilCleared ==
    [][ /\ ( /\ schedCall'.op = "set"
             /\ schedCall'.which < MAX_SIMPLE_SCHEDULES
             /\ schedCall'.startMinutesSinceMidnightLT < 1440
             /\ SetSimpleSchedule )
           => /\ schedCall'.result
              /\ curAnyScheduleSet'
              /\ getSimpleScheduleOn(eeprom', schedCall'.which) < MINS_PER_DAY
        /\ \A w \in ScheduleSlots :
               ( /\ curScheduleOn(w) < MINS_PER_DAY
                 /\ ~( /\ schedCall'.op = "clear" /\ schedCall'.which = w
                       /\ ClearSimpleSchedule ) )
               => /\ curScheduleOn(w)' < MINS_PER_DAY
                  /\ curAnyScheduleSet'
        /\ curAnyScheduleSet <=> \E w \in ScheduleSlots : curScheduleOn(w) # invalidTime
        /\ curAnyScheduleSet' <=> \E w \in ScheduleSlots : curScheduleOn(w)' # invalidTime
      ]_vars

\* C22 witness: the latest call set schedule 1 while schedule 0 is not set, and
\* isAnySimpleScheduleSet() is true.
C22_Witness ==
    /\ schedCall.op = "set" /\ schedCall.result /\ schedCall.which = 1
    /\ curScheduleOn(1) < MINS_PER_DAY
    /\ curScheduleOn(0) = invalidTime
    /\ curAnyScheduleSet

\* C23 (schedule round trip): right after a setSimpleSchedule(t, which) call that
\* returned true, getSimpleScheduleOn(which) is
\* (SIMPLE_SCHEDULE_GRANULARITY_MINS * floor(t / SIMPLE_SCHEDULE_GRANULARITY_MINS)
\* - PREWARM_MINS) mod 1440, a value in [0,1439].
C23_RoundTrip ==
    [][ ( /\ schedCall'.op = "set"
          /\ schedCall'.result
          /\ SetSimpleSchedule )
        => LET t == schedCall'.startMinutesSinceMidnightLT
               on == getSimpleScheduleOn(eeprom', schedCall'.which)
           IN  /\ on = ( SIMPLE_SCHEDULE_GRANULARITY_MINS
                           * (t \div SIMPLE_SCHEDULE_GRANULARITY_MINS)
                         - PREWARM_MINS ) % 1440
               /\ on \in 0 .. 1439
      ]_vars

\* C23 witness: schedule 0 was set for 00:29, stored as 00:24, and its on time is 23:54
\* of the day before.
C23_Witness ==
    /\ schedCall.op = "set" /\ schedCall.result /\ schedCall.which = 0
    /\ schedCall.startMinutesSinceMidnightLT = 29
    /\ eeprom[0] = 4
    /\ curScheduleOn(0) = 1434

\* C24: for every schedule number, getSimpleScheduleOff() returns the invalid value
\* exactly when getSimpleScheduleOn() does, and otherwise returns
\* (getSimpleScheduleOn() + PREWARM_MINS + onTime()) mod 1440, a value in [0,1439].
C24_OffFromOn ==
    \A which \in ScheduleNumbers :
        /\ curScheduleOff(which) = invalidTime <=> curScheduleOn(which) = invalidTime
        /\ curScheduleOn(which) # invalidTime =>
               /\ curScheduleOff(which) =
                      ( curScheduleOn(which) + PREWARM_MINS + onTime(scheduleEcoBias) ) % 1440
               /\ curScheduleOff(which) \in 0 .. 1439

\* C24 witness: schedule 1 comes on at 23:00 and, with the comfort bias, goes off at
\* 01:30 of the next day, while schedule 0 is not set.
C24_Witness ==
    /\ curScheduleOn(1) = 1380 /\ ~scheduleEcoBias
    /\ curScheduleOff(1) = 90
    /\ curScheduleOn(0) = invalidTime /\ curScheduleOff(0) = invalidTime

\* C25: right after a clearSimpleSchedule(which) call with which < MAX_SIMPLE_SCHEDULES,
\* getSimpleScheduleOn(which) and getSimpleScheduleOff(which) return the invalid value;
\* a schedule that is not set stays so over every step that is not a successful
\* setSimpleSchedule() call for it; and a schedule that is not set passes neither the
\* test of isAnyScheduleOnWARMNow() nor that of isAnyScheduleOnWARMSoon(), at any time of
\* day and under either bias.
C25_ClearedIsSilent ==
    [][ /\ ( /\ schedCall'.op = "clear"
             /\ schedCall'.which < MAX_SIMPLE_SCHEDULES
             /\ ClearSimpleSchedule )
           => /\ getSimpleScheduleOn(eeprom', schedCall'.which) = invalidTime
              /\ getSimpleScheduleOff(eeprom', schedCall'.which, onTime(scheduleEcoBias'))
                     = invalidTime
        /\ \A w \in ScheduleSlots :
               /\ ( /\ curScheduleOn(w) = invalidTime
                    /\ ~( /\ schedCall'.op = "set" /\ schedCall'.which = w
                          /\ schedCall'.result /\ SetSimpleSchedule ) )
                  => curScheduleOn(w)' = invalidTime
               /\ curScheduleOn(w)' = invalidTime =>
                      \A mm \in ClockTimes \cup { minutesSinceMidnightLT' }, eco \in BOOLEAN :
                          /\ ~scheduleOnAt(eeprom', w, mm, onTime(eco))
                          /\ ~scheduleOnAt(eeprom', w, lookAhead(mm), onTime(eco))
      ]_vars

\* C25 witness: schedule 0, which was set, has just been cleared at a time of day that
\* lies in the on period of schedule 1 alone.
C25_Witness ==
    /\ schedCall.op = "clear" /\ schedCall.which = 0 /\ schedCall.wasSet
    /\ curScheduleOn(0) = invalidTime /\ curScheduleOff(0) = invalidTime
    /\ curScheduleOn(1) = 696 /\ minutesSinceMidnightLT = 700
    /\ curWARMNow

\* C26: isAnyScheduleOnWARMNow() is true exactly when, for some set schedule, the
\* current minutes since midnight lie in its on period
\* [on, on + PREWARM_MINS + onTime()) taken modulo 1440, i.e. less than
\* PREWARM_MINS + onTime() minutes have passed since its on time, on the same day or
\* across midnight.  Refuted for the part of an on period that follows midnight.
C26_WARMNowIffInOnPeriod ==
    curWARMNow <=>
        \E w \in ScheduleSlots :
            /\ curScheduleOn(w) # invalidTime
            /\ (minutesSinceMidnightLT - curScheduleOn(w)) % 1440
                   < PREWARM_MINS + onTime(scheduleEcoBias)

----------------------------------------------------------------------------
(* Claims about the valve controller, continued.                           *)

\* C27 (bake asymmetry): on a tick over target (adjustedC > targetTempC) the new percent
\* is the percent the algorithm computes from the same percent, history, filtering flag
\* and countdowns and from the input state with inBakeMode inverted.
C27_BakeIgnoredOverTarget ==
    [][ zoneOver' =>
            valvePCOpen' =
                computeRequiredTRVPercentOpen(
                    valvePCOpen,
                    [inputState' EXCEPT !.inBakeMode = ~inputState'.inBakeMode],
                    prevRawTempC16', isFiltering',
                    countDown(valveTurndownCountdownM), countDown(valveTurnupCountdownM))
      ]_vars

\* C27 witness: in bake mode, more than 1 C over target, a tick closed the valve from
\* fully open.
C27_Witness ==
    /\ caller = "done" /\ zoneOver /\ inputState.inBakeMode
    /\ curAdjustedTempC > inputState.targetTempC + 1
    /\ inputState.maxPCOpen = 100
    /\ valveMoved /\ valvePCOpen < 100
    /\ valveTurndownCountdownM = DEFAULT_ANTISEEK_VALVE_REOPEN_DELAY_M
    /\ cumulativeMovementPC >= 100 - valvePCOpen

\* Turn-down is suppressed in the tick that leads to the primed state: dontTurndown()
\* as the algorithm sees it, after the countdown decrement.
turndownSuppressedInTick == dontTurndown(countDown(valveTurnupCountdownM))

\* The hold while cooling applies in the tick that leads to the primed state: just over
\* target, with a wide deadband, and the raw temperature fell since the previous tick.
holdWhileCoolingInTick ==
    /\ curAdjustedTempC' = inputState'.targetTempC + 1
    /\ inputState'.widenDeadband
    /\ getRawDelta(prevRawTempC16') < 0

\* C28 as stated (closing progress): while every tick is fed the same snapshot, a tick
\* over target strictly decreases a non-zero percent unless turn-down is suppressed,
\* and leaves a zero percent at zero.  Refuted on the first of the ticks, which holds
\* the percent when the temperature has just fallen to just over target, and where the
\* percent wraps below zero.
C28_ClosingProgress ==
    [][ zoneOver' =>
            /\ ( valvePCOpen # 0 /\ ~turndownSuppressedInTick )
                   => valvePCOpen' < valvePCOpen
            /\ valvePCOpen = 0 => valvePCOpen' = 0
      ]_vars

\* C28 amended: while every tick is fed the same snapshot, a tick over target that
\* starts from a percent not above maxPCOpen
\*  - strictly decreases a non-zero percent unless turn-down is suppressed or the hold
\*    while cooling applies, and the hold applies on no tick after the first;
\*  - when turn-down is suppressed holds the percent and decrements the inhibit;
\*  - leaves a zero percent at zero;
\*  - leaves the percent not above maxPCOpen.
\* So while adjustedC stays over target the percent reaches 0 after finitely many ticks
\* and stays there.
C28_ClosingProgressAfterHold ==
    [][ ( zoneOver' /\ valvePCOpen <= inputState'.maxPCOpen ) =>
            /\ ( valvePCOpen # 0 /\ ~turndownSuppressedInTick /\ ~holdWhileCoolingInTick )
                   => valvePCOpen' < valvePCOpen
            /\ caller = "same" => ~holdWhileCoolingInTick
            /\ ( valvePCOpen # 0 /\ turndownSuppressedInTick )
                   => /\ valvePCOpen' = valvePCOpen
                      /\ valveTurnupCountdownM' < valveTurnupCountdownM
            /\ valvePCOpen = 0 => valvePCOpen' = 0
            /\ valvePCOpen' <= inputState'.maxPCOpen
      ]_vars

\* C28 witness: fed the same snapshot over target again and again, the valve has been
\* closed all the way from 60% and the latest tick shut it.
C28_Witness ==
    /\ caller = "same" /\ zoneOver
    /\ valvePCOpen = 0 /\ valveMoved
    /\ cumulativeMovementPC >= 60
    /\ valveTurndownCountdownM = DEFAULT_ANTISEEK_VALVE_REOPEN_DELAY_M
    /\ \A i \in Slots : prevRawTempC16[i] = prevRawTempC16[0]

\* How far the valve is from resting at maxPCOpen while under target: 0 at maxPCOpen,
\* 1 above it, and below it a count that grows with the distance to maxPCOpen and with
\* the minutes left of the turn-up inhibit.
openingDistance ==
    IF valvePCOpen = inputState.maxPCOpen THEN 0
    ELSE IF valvePCOpen > inputState.maxPCOpen THEN 1
    ELSE 2 + (inputState.maxPCOpen - valvePCOpen) * (DEFAULT_ANTISEEK_VALVE_REOPEN_DELAY_M + 1)
           + valveTurndownCountdownM

\* C29 (opening progress): on every tick after the first of a run of ticks fed the same
\* snapshot, not in bake mode and with adjustedC below targetTempC, a percent equal to
\* maxPCOpen stays at maxPCOpen and with any other percent the tick strictly reduces
\* openingDistance, whose values are natural numbers.  So while adjustedC stays under
\* target the percent equals maxPCOpen after finitely many ticks and on every later
\* tick, whatever the percent, countdowns and flags were.
C29_OpeningProgress ==
    [][ ( caller = "same" /\ zoneUnder' /\ ~inputState'.inBakeMode ) =>
            /\ openingDistance \in Nat /\ openingDistance' \in Nat
            /\ valvePCOpen = inputState'.maxPCOpen => valvePCOpen' = inputState'.maxPCOpen
            /\ valvePCOpen # inputState'.maxPCOpen => openingDistance' < openingDistance
      ]_vars

\* C29 witness: fed the same snapshot under target again and again, the valve has been
\* opened all the way from shut and the latest tick brought it to maxPCOpen = 100.
C29_Witness ==
    /\ caller = "same" /\ zoneUnder /\ ~inputState.inBakeMode
    /\ inputState.maxPCOpen = 100
    /\ valvePCOpen = 100 /\ valveMoved
    /\ cumulativeMovementPC >= 100
    /\ \A i \in Slots : prevRawTempC16[i] = prevRawTempC16[0]

\* The filter memory holds filterLength equal readings.
steadyReadings == \A i \in Slots : prevRawTempC16[i] = prevRawTempC16[0]

\* C30 (filter self-correction): every tick of an initialised control state shifts the
\* snapshot's raw temperature into the filter memory and drops the oldest reading, and
\* after a tick that leaves filterLength equal readings there (as the last of
\* filterLength consecutive ticks with the same raw temperature does) isFiltering is
\* false and the temperature used for control is the snapshot's refTempC16.
C30_FilterSelfCorrects ==
    [][ /\ prevRawTempC16'[0] = inputState'.refTempC16 - refTempOffsetC16
        /\ \A i \in 1 .. (filterLength - 1) : prevRawTempC16'[i] = prevRawTempC16[i - 1]
        /\ steadyReadings' =>
               /\ ~isFiltering'
               /\ curAdjustedTempC16' = inputState'.refTempC16
      ]_vars

\* C30 witness: the fourth tick with the same raw temperature after a jump has filled
\* the filter memory with that temperature and disengaged the filter, which was still
\* engaged on entry.
C30_Witness ==
    /\ caller = "same" /\ steadyReadings
    /\ wasFiltering /\ ~isFiltering
    /\ curAdjustedTempC16 = inputState.refTempC16

----------------------------------------------------------------------------
(* Claims about the filter memory and the at-target zone.                  *)

\* C31 (history shift): every tick of an initialised control state puts that tick's raw
\* temperature at index 0 of the filter memory and moves the entry at index i-1 to
\* index i for 1 <= i < filterLength, discarding the oldest; so after filterLength or
\* more ticks the memory holds the last filterLength raw temperatures, newest first.
C31_HistoryShift ==
    [][ initialised =>
            /\ prevRawTempC16'[0] = inputState'.refTempC16 - refTempOffsetC16
            /\ \A i \in 1 .. (filterLength - 1) : prevRawTempC16'[i] = prevRawTempC16[i - 1]
            /\ DOMAIN prevRawTempC16' = Slots
      ]_vars

\* C31 witness: four ticks with the readings 326, 310, 326, 328 in that order have left
\* exactly them in the filter memory, newest first.
C31_Witness ==
    /\ initialised
    /\ prevRawTempC16 = [i \in Slots |-> IF i = 0 THEN 328 ELSE IF i = 2 THEN 310 ELSE 326]
    /\ inputState.refTempC16 = 328 + refTempOffsetC16

\* The proportional target before it is constrained, for sub-degree bits lsbits.
targetPORawFor(lsbits) == (16 - lsbits) * ulpStep

\* The control temperature moved to sub-degree bits lsbits of the same degree.
atSubDegree(aC16, lsbits) == aC16 - lsbitsOf(aC16) + lsbits

\* C32 (at-target proportional map): after a tick at target, targetPO is
\* (16 - (adjustedC16 mod 16)) * 6 clamped into [minPCOpen, maxPCOpen] and lies in
\* [minPCOpen, maxPCOpen]; and for the input state of that tick the unclamped value lies
\* in 6..96 for all sub-degree bits 0..15, and targetPO does not increase as the
\* sub-degree bits grow.
C32_ProportionalMap ==
    ( initialised /\ zoneAtTarget ) =>
        LET in == inputState
            aC16 == curAdjustedTempC16
            raw == (16 - (aC16 % 16)) * 6
        IN  /\ curTargetPO =
                   IF raw < in.minPCOpen THEN in.minPCOpen
                   ELSE IF raw > in.maxPCOpen THEN in.maxPCOpen ELSE raw
            /\ in.minPCOpen <= curTargetPO /\ curTargetPO <= in.maxPCOpen
            /\ \A b \in 0 .. 15 :
                   /\ targetPORawFor(b) \in 6 .. 96
                   /\ targetPOFor(in, atSubDegree(aC16, b)) \in in.minPCOpen .. in.maxPCOpen
                   /\ b < 15 =>
                          targetPOFor(in, atSubDegree(aC16, b + 1))
                              <= targetPOFor(in, atSubDegree(aC16, b))

\* C32 witness: a tick at target with sub-degree bits 9, whose unclamped target 42 lies
\* within the bounds 15..100 and is the percent the valve rests at.
C32_Witness ==
    /\ caller = "done" /\ zoneAtTarget
    /\ lsbitsOf(curAdjustedTempC16) = 9
    /\ inputState.minPCOpen = DEFAULT_VALVE_PC_MIN_REALLY_OPEN
    /\ curTargetPO = 42 /\ valvePCOpen = 42

\* C33 (no overshoot in the proportional band): on a tick at target with inBakeMode
\* false the new percent lies between the percent before the tick and targetPO,
\* inclusive.
C33_NoOvershootAtTarget ==
    [][ ( zoneAtTarget' /\ ~inputState'.inBakeMode ) =>
            /\ min(valvePCOpen, curTargetPO') <= valvePCOpen'
            /\ valvePCOpen' <= max(valvePCOpen, curTargetPO')
      ]_vars

\* C33 witness: a tick at target closed the valve from 28% straight to the proportional
\* target 18.
C33_Witness ==
    /\ caller = "done" /\ zoneAtTarget /\ ~inputState.inBakeMode
    /\ curTargetPO = 18 /\ valvePCOpen = 18 /\ valveMoved
    /\ cumulativeMovementPC \in 10 .. 11
    /\ valveTurndownCountdownM = DEFAULT_ANTISEEK_VALVE_REOPEN_DELAY_M

\* C34 (at-target deadband): on a tick at target the percent is held when it is above
\* targetPO by less than the deadband, and when it is below targetPO by less than the
\* deadband with inBakeMode false; the deadband is at least 7 (1 + ulpStep) and with
\* widenDeadband set it is never smaller than without it.
C34_DeadbandHolds ==
    [][ zoneAtTarget' =>
            LET in == inputState'
                targetPO == curTargetPO'
                deadband == minAbsSlewFor(in)
            IN  /\ ( targetPO < valvePCOpen /\ valvePCOpen - targetPO < deadband )
                       => valvePCOpen' = valvePCOpen
                /\ ( targetPO > valvePCOpen /\ ~in.inBakeMode
                     /\ targetPO - valvePCOpen < deadband )
                       => valvePCOpen' = valvePCOpen
                /\ deadband >= 1 + ulpStep
                /\ 1 + ulpStep = 7
                /\ minAbsSlewFor([in EXCEPT !.widenDeadband = TRUE])
                       >= minAbsSlewFor([in EXCEPT !.widenDeadband = FALSE])
      ]_vars

\* C34 witness: with widenDeadband set, a valve at 80%, ten below its proportional target
\* of 90, was held by the deadband alone: the temperatures were not rising and turn-up was
\* not suppressed.
C34_Witness ==
    /\ caller = "done" /\ zoneAtTarget
    /\ inputState.widenDeadband /\ ~inputState.inBakeMode
    /\ curTargetPO = 90 /\ valvePCOpen = 80 /\ ~valveMoved
    /\ getRawDelta(prevRawTempC16) <= 0
    /\ ~dontTurnup(valveTurndownCountdownM)
    /\ cumulativeMovementPC = 0

\* C35 (at-target movement follows the temperature trend): on a tick at target with
\* inBakeMode false the percent decreases only if the last raw delta is strictly
\* positive, and increases only if that delta is not positive and the sub-degree bits
\* are below 12 (below 8 with widenDeadband).
C35_MovementFollowsTrend ==
    [][ ( zoneAtTarget' /\ ~inputState'.inBakeMode ) =>
            LET delta == prevRawTempC16'[0] - prevRawTempC16'[1]
                lsbits == lsbitsOf(curAdjustedTempC16')
            IN  /\ valvePCOpen' < valvePCOpen => delta > 0
                /\ valvePCOpen' > valvePCOpen =>
                       /\ delta <= 0
                       /\ lsbits < (IF inputState'.widenDeadband THEN 8 ELSE 12)
      ]_vars

\* C35 witness: without widenDeadband and with sub-degree bits of 10 (between the two
\* thresholds) a tick opened the valve one step from 28% while the temperature was not
\* rising.
C35_Witness ==
    /\ caller = "done" /\ zoneAtTarget
    /\ ~inputState.widenDeadband /\ ~inputState.inBakeMode
    /\ lsbitsOf(curAdjustedTempC16) = 10 /\ curTargetPO = 36
    /\ valvePCOpen = 29 /\ valveMoved
    /\ getRawDelta(prevRawTempC16) <= 0
    /\ valveTurnupCountdownM = DEFAULT_ANTISEEK_VALVE_RECLOSE_DELAY_M

(* Claims about the final close and the fast open. *)

\* C36 (slow final close): on a tick over target from a percent above 0 and below
\* minPCOpen, with turn-down not suppressed and neither the hold while cooling nor the
\* glacial close while filtering applying, the new percent is 0 if
\* DEFAULT_MAX_RUN_ON_TIME_M < minPCOpen and the percent is below
\* minPCOpen - DEFAULT_MAX_RUN_ON_TIME_M, and otherwise one less than before; a step
\* of one starts at most DEFAULT_MAX_RUN_ON_TIME_M below minPCOpen, so that from
\* minPCOpen - 1 there are at most that many of them before the valve is shut.
C36_SlowFinalClose ==
    [][ ( /\ zoneOver'
          /\ 0 < valvePCOpen /\ valvePCOpen < inputState'.minPCOpen
          /\ ~turndownSuppressedInTick
          /\ ~holdWhileCoolingInTick
          /\ ~( curAdjustedTempC' = inputState'.targetTempC + 1 /\ isFiltering' ) )
        =>
            LET minReallyOpen == inputState'.minPCOpen
            IN  /\ valvePCOpen' =
                       IF /\ DEFAULT_MAX_RUN_ON_TIME_M < minReallyOpen
                          /\ valvePCOpen < minReallyOpen - DEFAULT_MAX_RUN_ON_TIME_M
                       THEN 0
                       ELSE valvePCOpen - 1
                /\ valvePCOpen' # 0 =>
                       /\ minReallyOpen - valvePCOpen \in 1 .. DEFAULT_MAX_RUN_ON_TIME_M
                       /\ (minReallyOpen - 1) - valvePCOpen' \in 1 .. DEFAULT_MAX_RUN_ON_TIME_M
      ]_vars

\* C36 witness: fed the same snapshot over target, the valve came down from 60% to the
\* linger threshold and from there in five steps of one to 9%, from where the next tick
\* shuts it.
C36_Witness ==
    /\ caller = "same" /\ zoneOver
    /\ inputState.minPCOpen = DEFAULT_VALVE_PC_MIN_REALLY_OPEN
    /\ valvePCOpen = DEFAULT_VALVE_PC_MIN_REALLY_OPEN - 1 - DEFAULT_MAX_RUN_ON_TIME_M
    /\ valveMoved
    /\ cumulativeMovementPC = 60 - valvePCOpen
    /\ valveTurnupCountdownM = 0

\* True if the opening slew under target is glacial, for a tick from percent pc.
beGlacialOpening(pc, in, hist, filt) ==
    LET vBelowTarget == adjustedTempC(in, hist, filt) < in.targetTempC - 1
    IN  \/ in.glacial
        \/ /\ pc >= in.minPCOpen
           /\ in.widenDeadband
           /\ ~in.fastResponseRequired
           /\ \/ (in.hasEcoBias /\ ~vBelowTarget)
              \/ (filt /\ getRawDelta(hist) > 0)

\* Just over 'moderately open', capped at maxPCOpen.
cappedModeratelyOpenFor(in) ==
    ToUint8(min(in.maxPCOpen,
                min(99, DEFAULT_VALVE_PC_MODERATELY_OPEN + TRV_SLEW_PC_PER_MIN_FAST)))

\* Turn-up is suppressed in the tick that leads to the primed state: the turn-down
\* countdown, decremented by the tick, is still above zero.
turnupSuppressedInTick == dontTurnup(countDown(valveTurndownCountdownM))

\* C37 (fast open when well below target): on a tick under target with no bake, no
\* window-open trigger, turn-up not suppressed, percent < maxPCOpen and the glacial
\* condition false, if fastResponseRequired or (adjustedC < targetTempC - 1 and not
\* widenDeadband), and the percent is below the capped threshold
\* min(maxPCOpen, min(99, DEFAULT_VALVE_PC_MODERATELY_OPEN + fast slew)), then the new
\* percent is exactly that threshold, whatever open-from-cold or the normal slew would
\* give.
C37_FastOpenWellBelow ==
    [][ ( /\ zoneUnder' /\ ~inputState'.inBakeMode
          /\ ~windowGuardFires'
          /\ ~turnupSuppressedInTick
          /\ valvePCOpen < inputState'.maxPCOpen
          /\ ~beGlacialOpening(valvePCOpen, inputState', prevRawTempC16', isFiltering')
          /\ \/ inputState'.fastResponseRequired
             \/ /\ curAdjustedTempC' < inputState'.targetTempC - 1
                /\ ~inputState'.widenDeadband
          /\ valvePCOpen < cappedModeratelyOpenFor(inputState') )
        => valvePCOpen' = cappedModeratelyOpenFor(inputState')
      ]_vars

\* C37 witness: with fastResponseRequired and a wide deadband, less than 1 C under
\* target, a tick took a valve that was below minPCOpen straight to 45%, where
\* open-from-cold would have stopped at 20%.
C37_Witness ==
    /\ caller = "done" /\ zoneUnder /\ ~inputState.inBakeMode
    /\ inputState.fastResponseRequired /\ inputState.widenDeadband
    /\ ~inputState.glacial
    /\ curAdjustedTempC = inputState.targetTempC - 1
    /\ inputState.minPCOpen = DEFAULT_VALVE_PC_MIN_REALLY_OPEN
    /\ valvePCOpen = DEFAULT_VALVE_PC_MODERATELY_OPEN + TRV_SLEW_PC_PER_MIN_FAST
    /\ valveMoved /\ cumulativeMovementPC >= valvePCOpen - 12
    /\ valveTurnupCountdownM = DEFAULT_ANTISEEK_VALVE_RECLOSE_DELAY_M

(* Claim about the independence of the schedules. *)

\* C38 (schedule slots are independent): over a setSimpleSchedule(t, w) or
\* clearSimpleSchedule(w) call, for every schedule number v other than w,
\* getSimpleScheduleOn(v) and getSimpleScheduleOff(v) return the same values after the
\* call as before it.
C38_SlotsIndependent ==
    [][ schedCall'.op \in { "set", "clear" }
        => \A v \in ScheduleNumbers \ { schedCall'.which } :
               /\ getSimpleScheduleOn(eeprom', v) = getSimpleScheduleOn(eeprom, v)
               /\ \A eco \in BOOLEAN :
                      getSimpleScheduleOff(eeprom', v, onTime(eco))
                          = getSimpleScheduleOff(eeprom, v, onTime(eco))
      ]_vars

\* C38 witness: schedule 1, not set before, has just been set for 12:11 while schedule 0
\* keeps its on time of 23:00.
C38_Witness ==
    /\ schedCall.op = "set" /\ schedCall.result /\ schedCall.which = 1
    /\ ~schedCall.wasSet
    /\ schedCall.startMinutesSinceMidnightLT = 731
    /\ curScheduleOn(1) = 696
    /\ curScheduleOn(0) = 1380

====
